---- MODULE Spec2Model ----
(***************************************************************************)
(* dailylog: a journaling tool that stores one markdown file per day.      *)
(*                                                                         *)
(* Texts are sequences of one-character strings.  The entry pipeline       *)
(* (parse_entry, format_entry, append_to_log of src/src/entry.rs) and the  *)
(* title extractor (extract_entry_titles of src/src/summary.rs) are        *)
(* operators over such texts, computed the way the Rust code computes      *)
(* them; the actions apply them to inputs drawn from bounded sets.         *)
(* File operations are taken to succeed: the `?` paths that hand an OS     *)
(* error back to the caller are not part of the model.                     *)
(*                                                                         *)
(* The configuration file (src/src/config.rs) is a record saying whether   *)
(* its text deserializes and which keys it sets.  A git command            *)
(* (src/src/git.rs) is an event with an exit status drawn from every       *)
(* outcome; what it does to the working tree is not modelled.  A command   *)
(* of the binary (main of src/src/main.rs) is one action recording the     *)
(* file write and the git commands in the order the code runs them.        *)
(*                                                                         *)
(* Local::now() is an instant counted in hours and a time zone that may    *)
(* change its offset once; dates are days counted from 2023-12-30 and are  *)
(* formatted by the proleptic Gregorian calendar.  main.rs carries its own *)
(* summarize_logs, which is the one the `summary` command runs; the one of *)
(* src/src/summary.rs is modelled beside it.                               *)
(***************************************************************************)
EXTENDS Integers, Sequences, FiniteSets, TLC

VARIABLES
    input,      \* the text handed to the operation (editor text / markdown)
    file,       \* the log file append_to_log is pointed at
    res,        \* what the last operation returned
    today,      \* Local::now().date_naive(), in days counted from a Monday
    days,       \* the --days argument of `summary`
    summary_days, \* config.summary_days
    logs,       \* logs[i]: the log file of the date today - i
    summary,    \* what summarize_logs counted and printed
    cfg_file,   \* ~/.dailylog.toml
    home,       \* whether home_dir() resolves
    config,     \* what load_config returned
    is_repo,    \* whether log_dir/.git exists
    run,        \* the command of this invocation and what it did
    clock,      \* the instant of Local::now(), in hours
    zone        \* the daylight-saving rule of the Local time zone

entryVars == <<input, file, res>>

summaryVars == <<today, days, summary_days, logs, summary>>

sysVars == <<cfg_file, home, config, is_repo, run>>

timeVars == <<clock, zone>>

vars ==
    <<input, file, res, today, days, summary_days, logs, summary,
      cfg_file, home, config, is_repo, run, clock, zone>>

(***************************************************************************)
(* Bounds                                                                  *)
(***************************************************************************)
\* longest editor text, in characters
MaxLen == 6

\* most pieces a markdown content is put together from
MaxPieces == 5

\* largest --days argument
MaxSpan == 7

\* longest window, in days, of the summaries over unusual files and settings
MaxShortSpan == 3

\* a log file longer than this takes no further entry
MaxLogLen == 8

\* the most git commands of the binary run one after the other
MaxRuns == 3

\* the latest instant of a call, in hours from the midnight that starts day 0
MaxClock == 50

\* the last day, counted from day 0, a path is asked for
MaxDay == 70

(***************************************************************************)
(* Text primitives (Rust str methods)                                      *)
(***************************************************************************)
Min(S) == CHOOSE x \in S : \A y \in S : x <= y

Max(S) == CHOOSE x \in S : \A y \in S : x >= y

\* char::is_whitespace, restricted to the ASCII members
Whitespace == {" ", "\n", "\t", "\r"}

\* str::trim
Trim(s) ==
    LET keep == {i \in 1..Len(s) : s[i] \notin Whitespace}
    IN  IF keep = {} THEN <<>> ELSE SubSeq(s, Min(keep), Max(keep))

\* str::trim().is_empty()
IsBlank(s) == Trim(s) = <<>>

\* the line terminator handling of str::lines: a "\r" right before the "\n"
\* belongs to the terminator
StripCR(l) ==
    IF Len(l) > 0 /\ l[Len(l)] = "\r" THEN SubSeq(l, 1, Len(l) - 1) ELSE l

RECURSIVE LinesFrom(_, _)
LinesFrom(s, start) ==
    IF start > Len(s) THEN <<>>
    ELSE LET nls == {i \in start..Len(s) : s[i] = "\n"}
         IN  IF nls = {} THEN <<SubSeq(s, start, Len(s))>>
             ELSE <<StripCR(SubSeq(s, start, Min(nls) - 1))>>
                  \o LinesFrom(s, Min(nls) + 1)

\* str::lines: split at "\n"; a final "\n" does not open another line
Lines(s) == LinesFrom(s, 1)

\* [&str]::join
RECURSIVE Join(_, _)
Join(ls, sep) ==
    IF Len(ls) = 0 THEN <<>>
    ELSE IF Len(ls) = 1 THEN ls[1]
    ELSE ls[1] \o sep \o Join(Tail(ls), sep)

\* str::starts_with
StartsWith(s, p) == Len(s) >= Len(p) /\ SubSeq(s, 1, Len(p)) = p

\* the positions at which pattern p occurs in s
Matches(s, p) ==
    {i \in 1..(Len(s) - Len(p) + 1) : SubSeq(s, i, i + Len(p) - 1) = p}

\* str::contains
Contains(s, p) == Matches(s, p) # {}

\* str::split(p), collected: non-overlapping matches, left to right
RECURSIVE Split(_, _)
Split(s, p) ==
    IF Matches(s, p) = {} THEN <<s>>
    ELSE LET i == Min(Matches(s, p))
         IN  <<SubSeq(s, 1, i - 1)>> \o Split(SubSeq(s, i + Len(p), Len(s)), p)

\* str::trim_start_matches(c)
TrimStartMatches(s, c) ==
    LET keep == {i \in 1..Len(s) : s[i] # c}
    IN  IF keep = {} THEN <<>> ELSE SubSeq(s, Min(keep), Len(s))

\* Option<String>
None == [some |-> FALSE, val |-> <<>>]

Some(v) == [some |-> TRUE, val |-> v]

(***************************************************************************)
(* entry.rs                                                                *)
(***************************************************************************)
\* the index (0-based, as in the code) body_start ends with, over lines[1..]
RECURSIVE FindBodyStart(_, _)
FindBodyStart(lines, i) ==
    IF i >= Len(lines) THEN 1
    ELSE IF IsBlank(lines[i + 1]) THEN i + 1
    ELSE FindBodyStart(lines, i + 1)

\* parse_entry without the search for a blank line
parse_entry_no_blank_search(content) ==
    LET lines == Lines(content)
    IN  IF Len(lines) = 0 THEN [title |-> None, body |-> <<>>]
        ELSE IF Trim(lines[1]) = <<>> THEN [title |-> None, body |-> content]
        ELSE [title |-> Some(Trim(lines[1])),
              body  |-> Trim(Join(SubSeq(lines, 2, Len(lines)), <<"\n">>))]

\* parse_entry trimming the text it passes through when there is no title
parse_entry_trimmed_passthrough(content) ==
    LET lines == Lines(content)
    IN  IF Len(lines) = 0 \/ Trim(lines[1]) = <<>>
        THEN [title |-> None, body |-> Trim(content)]
        ELSE [title |-> Some(Trim(lines[1])),
              body  |-> IF FindBodyStart(lines, 1) < Len(lines)
                        THEN Trim(Join(SubSeq(lines, FindBodyStart(lines, 1) + 1,
                                              Len(lines)), <<"\n">>))
                        ELSE <<>>]

\* parse_entry taking every line before the first blank line as the title
parse_entry_multiline_title(content) ==
    LET lines == Lines(content)
    IN  IF Len(lines) = 0 THEN [title |-> None, body |-> <<>>]
        ELSE IF Trim(lines[1]) = <<>> THEN [title |-> None, body |-> content]
        ELSE LET body_start == FindBodyStart(lines, 1)
                 last == IF body_start > 1 THEN body_start - 1 ELSE 1
             IN  [title |-> Some(Trim(Join(SubSeq(lines, 1, last), <<"\n">>))),
                  body  |-> IF body_start < Len(lines)
                            THEN Trim(Join(SubSeq(lines, body_start + 1, Len(lines)),
                                           <<"\n">>))
                            ELSE <<>>]

parse_entry(content) ==
    LET lines == Lines(content)
    IN  IF Len(lines) = 0 THEN [title |-> None, body |-> <<>>]
        ELSE IF Trim(lines[1]) = <<>> THEN [title |-> None, body |-> content]
        ELSE LET body_start == FindBodyStart(lines, 1)
             IN  [title |-> Some(Trim(lines[1])),
                  body  |-> IF body_start < Len(lines)
                            THEN Trim(Join(SubSeq(lines, body_start + 1, Len(lines)),
                                           <<"\n">>))
                            ELSE <<>>]

Digits == <<"0", "1", "2", "3", "4", "5", "6", "7", "8", "9">>

\* chrono's %H and %M: two digits, zero padded
TwoDigits(n) == <<Digits[(n \div 10) + 1], Digits[(n % 10) + 1]>>

\* Local::now().format("%H:%M")
Timestamp(now) == TwoDigits(now[1]) \o <<":">> \o TwoDigits(now[2])

\* day 0, 2023-12-30, in days counted from 1970-01-01
FirstDay == 19721

\* NaiveDate: the date of the proleptic Gregorian calendar that is z days
\* after 0000-03-01
CivilFromDays(z) ==
    LET era == z \div 146097
        doe == z - era * 146097
        yoe == (doe - doe \div 1460 + doe \div 36524 - doe \div 146096) \div 365
        doy == doe - (365 * yoe + yoe \div 4 - yoe \div 100)
        mp == (5 * doy + 2) \div 153
        mo == IF mp < 10 THEN mp + 3 ELSE mp - 9
    IN  [year |-> yoe + era * 400 + (IF mo <= 2 THEN 1 ELSE 0),
         month |-> mo,
         day |-> doy - (153 * mp + 2) \div 5 + 1]

\* the calendar date of day n
DateOf(n) == CivilFromDays(FirstDay + n + 719468)

\* chrono's %Y for the years 0..9999: four digits, zero padded
FourDigits(n) ==
    <<Digits[(n \div 1000) + 1], Digits[((n \div 100) % 10) + 1],
      Digits[((n \div 10) % 10) + 1], Digits[(n % 10) + 1]>>

\* date.format("%Y-%m-%d")
FormatDate(d) ==
    FourDigits(d.year) \o <<"-">> \o TwoDigits(d.month) \o <<"-">> \o TwoDigits(d.day)

\* Path::new(dir).join(name) for a relative name
PathJoin(dir, name) ==
    IF dir = <<>> THEN name
    ELSE IF dir[Len(dir)] = "/" THEN dir \o name
    ELSE dir \o <<"/">> \o name

\* the hours the Local zone is ahead of its standard time at instant h: no
\* daylight saving, clocks put forward at 02:00 of day 1, or put back from
\* 02:00 to 01:00 of day 1
LocalOffset(z, h) ==
    CASE z = "forward" -> IF h < 26 THEN 0 ELSE 1
      [] z = "back" -> IF h < 25 THEN 1 ELSE 0
      [] OTHER -> 0

\* the local calendar day of instant h (h >= -24)
LocalDay(z, h) == ((h + LocalOffset(z, h) + 24) \div 24) - 1

\* get_log_file_path_for_date(log_dir, date)
get_log_file_path_for_date(log_dir, date) ==
    PathJoin(log_dir, FormatDate(date) \o <<".", "m", "d">>)

\* get_log_file_path(log_dir) called at instant now
get_log_file_path(log_dir, z, now) ==
    PathJoin(log_dir, FormatDate(DateOf(LocalDay(z, now))) \o <<".", "m", "d">>)

\* get_previous_day_log_path(log_dir) called at instant now: Duration::days(1)
\* is 24 hours taken from the instant, and the date is that of the result
get_previous_day_log_path(log_dir, z, now) ==
    PathJoin(log_dir, FormatDate(DateOf(LocalDay(z, now - 24))) \o <<".", "m", "d">>)

\* format_entry without the `!title.is_empty()` guard
format_entry_empty_title_header(title, body, now) ==
    IF title.some
    THEN IF body = <<>>
         THEN <<"#", "#", " ">> \o Timestamp(now) \o <<" ", "-", " ">>
              \o title.val \o <<"\n">>
         ELSE <<"#", "#", " ">> \o Timestamp(now) \o <<" ", "-", " ">>
              \o title.val \o <<"\n", "\n">> \o body \o <<"\n">>
    ELSE IF body = <<>> THEN <<>> ELSE body \o <<"\n">>

format_entry(title, body, now) ==
    IF title.some /\ title.val # <<>>
    THEN IF body = <<>>
         THEN <<"#", "#", " ">> \o Timestamp(now) \o <<" ", "-", " ">>
              \o title.val \o <<"\n">>
         ELSE <<"#", "#", " ">> \o Timestamp(now) \o <<" ", "-", " ">>
              \o title.val \o <<"\n", "\n">> \o body \o <<"\n">>
    ELSE IF body = <<>> THEN <<>> ELSE body \o <<"\n">>

\* a file of the log directory
Absent == [exists |-> FALSE, content |-> <<>>]

Existing(c) == [exists |-> TRUE, content |-> c]

\* the file opened with truncate instead of append
AppendLine_truncating(f, text) == Existing(text \o <<"\n">>)

\* OpenOptions::new().create(true).append(true) followed by writeln!
AppendLine(f, text) == Existing(f.content \o text \o <<"\n">>)

\* append_to_log testing the fragment for emptiness without trimming it
append_to_log_untrimmed_test(f, content, now) ==
    LET parsed == parse_entry(content)
        formatted_entry == format_entry(parsed.title, parsed.body, now)
    IN  IF formatted_entry # <<>> THEN AppendLine(f, formatted_entry) ELSE f

append_to_log(f, content, now) ==
    LET parsed == parse_entry(content)
        formatted_entry == format_entry(parsed.title, parsed.body, now)
    IN  IF ~IsBlank(formatted_entry) THEN AppendLine(f, formatted_entry) ELSE f

\* edit_today_log writing whatever differs from the existing content
edit_today_log_keeping_blank(f, new_content) ==
    LET existing_content == IF f.exists THEN f.content ELSE <<>>
    IN  IF new_content # existing_content THEN Existing(new_content) ELSE f

\* edit_today_log writing the cleared content instead of removing the file
edit_today_log_writing_cleared(f, new_content) ==
    LET existing_content == IF f.exists THEN f.content ELSE <<>>
    IN  IF new_content # existing_content /\ ~IsBlank(new_content)
        THEN Existing(new_content)
        ELSE IF IsBlank(new_content) /\ f.exists
        THEN Existing(new_content)
        ELSE f

\* edit_today_log(path) with the text the editor returned
edit_today_log(f, new_content) ==
    LET existing_content == IF f.exists THEN f.content ELSE <<>>
    IN  IF new_content # existing_content /\ ~IsBlank(new_content)
        THEN Existing(new_content)
        ELSE IF IsBlank(new_content) /\ f.exists
        THEN Absent
        ELSE f

(***************************************************************************)
(* display.rs                                                              *)
(***************************************************************************)
\* view_previous_day_log opening the file the way append_to_log does, with
\* create(true)
view_previous_day_log_creating(f) ==
    IF ~f.exists
    THEN [result |-> "Ok", message |-> "log is empty", content |-> <<>>,
          file |-> Existing(<<>>)]
    ELSE IF IsBlank(f.content)
    THEN [result |-> "Ok", message |-> "log is empty", content |-> <<>>, file |-> f]
    ELSE [result |-> "Ok", message |-> "Log entry", content |-> f.content, file |-> f]

\* view_previous_day_log(log_dir) on the previous day's file f: its result,
\* what it prints, and the file afterwards
view_previous_day_log(f) ==
    IF ~f.exists
    THEN [result |-> "Ok", message |-> "No log entry found", content |-> <<>>,
          file |-> f]
    ELSE IF IsBlank(f.content)
    THEN [result |-> "Ok", message |-> "log is empty", content |-> <<>>, file |-> f]
    ELSE [result |-> "Ok", message |-> "Log entry", content |-> f.content, file |-> f]

\* add_to_previous_day_log appending the editor text as it is
add_to_previous_day_log_raw(f, entry, now) == AppendLine(f, entry)

\* add_to_previous_day_log writing the entry formatted over the file
add_to_previous_day_log_overwriting(f, entry, now) ==
    LET parsed == parse_entry(entry)
    IN  IF ~IsBlank(entry)
        THEN Existing(format_entry(parsed.title, parsed.body, now) \o <<"\n">>)
        ELSE f

\* add_to_previous_day_log(log_dir) with the text the editor returned
add_to_previous_day_log(f, entry, now) ==
    IF ~IsBlank(entry) THEN append_to_log(f, entry, now) ELSE f

(***************************************************************************)
(* summary.rs                                                              *)
(***************************************************************************)
\* the header test taking a header of any level
LineTitles_any_level(line) ==
    LET trimmed == Trim(line)
    IN  IF StartsWith(trimmed, <<"#", "#", " ">>) /\ Contains(trimmed, <<" ", "-", " ">>)
        THEN LET parts == Split(trimmed, <<" ", "-", " ">>)
             IN  IF Len(parts) >= 2 THEN <<parts[2]>> ELSE <<>>
        ELSE IF StartsWith(trimmed, <<"#">>) /\ Contains(trimmed, <<"#", " ">>)
        THEN <<Trim(TrimStartMatches(trimmed, "#"))>>
        ELSE <<>>

\* what one line adds to titles
LineTitles(line) ==
    LET trimmed == Trim(line)
    IN  IF StartsWith(trimmed, <<"#", "#", " ">>) /\ Contains(trimmed, <<" ", "-", " ">>)
        THEN LET parts == Split(trimmed, <<" ", "-", " ">>)
             IN  IF Len(parts) >= 2 THEN <<parts[2]>> ELSE <<>>
        ELSE IF StartsWith(trimmed, <<"#", " ">>)
                \/ StartsWith(trimmed, <<"#", "#", "#", " ">>)
        THEN <<Trim(TrimStartMatches(trimmed, "#"))>>
        ELSE <<>>

RECURSIVE TitlesOfLines(_)
TitlesOfLines(ls) ==
    IF Len(ls) = 0 THEN <<>> ELSE LineTitles(ls[1]) \o TitlesOfLines(Tail(ls))

extract_entry_titles(content) == TitlesOfLines(Lines(content))

\* NaiveDate::weekday of a date counted in days from a Monday
WeekdayNames == <<"Mon", "Tue", "Wed", "Thu", "Fri", "Sat", "Sun">>

Weekday(date) == WeekdayNames[(date % 7) + 1]

UpperCase ==
    <<"A", "B", "C", "D", "E", "F", "G", "H", "I", "J", "K", "L", "M",
      "N", "O", "P", "Q", "R", "S", "T", "U", "V", "W", "X", "Y", "Z">>

LowerCase ==
    <<"a", "b", "c", "d", "e", "f", "g", "h", "i", "j", "k", "l", "m",
      "n", "o", "p", "q", "r", "s", "t", "u", "v", "w", "x", "y", "z">>

\* char::to_lowercase on the ASCII letters
LowerChar(c) ==
    LET ks == {k \in 1..Len(UpperCase) : UpperCase[k] = c}
    IN  IF ks = {} THEN c ELSE LowerCase[Min(ks)]

\* str::to_lowercase
ToLowercase(s) == [i \in 1..Len(s) |-> LowerChar(s[i])]

\* Option<Weekday>
NoWeekday == "None"

\* parse_weekday taking every string that begins with an abbreviation
parse_weekday_by_prefix(day_str) ==
    LET d == ToLowercase(day_str)
    IN  CASE StartsWith(d, <<"m", "o", "n">>) -> "Mon"
          [] StartsWith(d, <<"t", "u", "e">>) -> "Tue"
          [] StartsWith(d, <<"w", "e", "d">>) -> "Wed"
          [] StartsWith(d, <<"t", "h", "u">>) -> "Thu"
          [] StartsWith(d, <<"f", "r", "i">>) -> "Fri"
          [] StartsWith(d, <<"s", "a", "t">>) -> "Sat"
          [] StartsWith(d, <<"s", "u", "n">>) -> "Sun"
          [] OTHER -> NoWeekday

parse_weekday(day_str) ==
    LET d == ToLowercase(day_str)
    IN  CASE d = <<"m", "o", "n", "d", "a", "y">> \/ d = <<"m", "o", "n">> -> "Mon"
          [] d = <<"t", "u", "e", "s", "d", "a", "y">> \/ d = <<"t", "u", "e">> -> "Tue"
          [] d = <<"w", "e", "d", "n", "e", "s", "d", "a", "y">> \/ d = <<"w", "e", "d">>
             -> "Wed"
          [] d = <<"t", "h", "u", "r", "s", "d", "a", "y">> \/ d = <<"t", "h", "u">>
             -> "Thu"
          [] d = <<"f", "r", "i", "d", "a", "y">> \/ d = <<"f", "r", "i">> -> "Fri"
          [] d = <<"s", "a", "t", "u", "r", "d", "a", "y">> \/ d = <<"s", "a", "t">>
             -> "Sat"
          [] d = <<"s", "u", "n", "d", "a", "y">> \/ d = <<"s", "u", "n">> -> "Sun"
          [] OTHER -> NoWeekday

\* config.summary_days.iter().filter_map(parse_weekday).collect()
RECURSIVE AllowedWeekdays(_)
AllowedWeekdays(names) ==
    IF Len(names) = 0 THEN <<>>
    ELSE (IF parse_weekday(names[1]) = NoWeekday THEN <<>>
          ELSE <<parse_weekday(names[1])>>)
         \o AllowedWeekdays(Tail(names))

\* Vec::contains
VecContains(v, x) == \E k \in 1..Len(v) : v[k] = x

\* the collecting loop running over 0..=days
RECURSIVE CollectFrom_inclusive(_, _, _, _, _, _)
CollectFrom_inclusive(i, acc, t, n, allowed, files) ==
    IF i > n THEN acc
    ELSE LET date == t - i
             eligible == VecContains(allowed, Weekday(date))
             recorded == /\ eligible
                         /\ files[i].exists
                         /\ ~IsBlank(files[i].content)
         IN  CollectFrom_inclusive(i + 1,
                 [total_entries |-> acc.total_entries + (IF recorded THEN 1 ELSE 0),
                  total_eligible_days |->
                      acc.total_eligible_days + (IF eligible THEN 1 ELSE 0),
                  entries_by_day |->
                      IF recorded
                      THEN Append(acc.entries_by_day,
                                  [date |-> date, content |-> files[i].content])
                      ELSE acc.entries_by_day],
                 t, n, allowed, files)

\* the collecting loop counting a day once for every name that allows it
RECURSIVE CollectFrom_per_name(_, _, _, _, _, _)
CollectFrom_per_name(i, acc, t, n, allowed, files) ==
    IF i >= n THEN acc
    ELSE LET date == t - i
             names == Cardinality({k \in 1..Len(allowed) : allowed[k] = Weekday(date)})
             recorded == /\ names > 0
                         /\ files[i].exists
                         /\ ~IsBlank(files[i].content)
         IN  CollectFrom_per_name(i + 1,
                 [total_entries |-> acc.total_entries + (IF recorded THEN 1 ELSE 0),
                  total_eligible_days |-> acc.total_eligible_days + names,
                  entries_by_day |->
                      IF recorded
                      THEN Append(acc.entries_by_day,
                                  [date |-> date, content |-> files[i].content])
                      ELSE acc.entries_by_day],
                 t, n, allowed, files)

\* the collecting loop putting each recorded day in front of the earlier ones
RECURSIVE CollectFrom_prepending(_, _, _, _, _, _)
CollectFrom_prepending(i, acc, t, n, allowed, files) ==
    IF i >= n THEN acc
    ELSE LET date == t - i
             eligible == VecContains(allowed, Weekday(date))
             recorded == /\ eligible
                         /\ files[i].exists
                         /\ ~IsBlank(files[i].content)
         IN  CollectFrom_prepending(i + 1,
                 [total_entries |-> acc.total_entries + (IF recorded THEN 1 ELSE 0),
                  total_eligible_days |->
                      acc.total_eligible_days + (IF eligible THEN 1 ELSE 0),
                  entries_by_day |->
                      IF recorded
                      THEN <<[date |-> date, content |-> files[i].content]>>
                           \o acc.entries_by_day
                      ELSE acc.entries_by_day],
                 t, n, allowed, files)

\* the collecting loop `for i in 0..days`, from iteration i on
RECURSIVE CollectFrom(_, _, _, _, _, _)
CollectFrom(i, acc, t, n, allowed, files) ==
    IF i >= n THEN acc
    ELSE LET date == t - i
             eligible == VecContains(allowed, Weekday(date))
             recorded == /\ eligible
                         /\ files[i].exists
                         /\ ~IsBlank(files[i].content)
         IN  CollectFrom(i + 1,
                 [total_entries |-> acc.total_entries + (IF recorded THEN 1 ELSE 0),
                  total_eligible_days |->
                      acc.total_eligible_days + (IF eligible THEN 1 ELSE 0),
                  entries_by_day |->
                      IF recorded
                      THEN Append(acc.entries_by_day,
                                  [date |-> date, content |-> files[i].content])
                      ELSE acc.entries_by_day],
                 t, n, allowed, files)

\* {:.1} of (total_entries as f64 / total_eligible_days as f64) * 100.0, in
\* tenths of a percent.  A quotient half way between two tenths needs a
\* denominator that is a multiple of 16.
ConsistencyTenths(entries, eligible) ==
    (2000 * entries + eligible) \div (2 * eligible)

\* the fallback looking at the first line only
DayLines_first_line_only(content) ==
    LET titles == extract_entry_titles(content)
        lines == SubSeq(Lines(content), 1, IF Len(Lines(content)) < 1
                                           THEN Len(Lines(content)) ELSE 1)
        shown == {k \in 1..Len(lines) : ~IsBlank(lines[k])}
    IN  IF titles # <<>> THEN titles
        ELSE IF shown = {} THEN <<>>
        ELSE <<Trim(lines[Min(shown)])>>

\* what is printed under a day's header: its titles, or else the first
\* non-blank one of its first two lines
DayLines(content) ==
    LET titles == extract_entry_titles(content)
        lines == SubSeq(Lines(content), 1, IF Len(Lines(content)) < 2
                                           THEN Len(Lines(content)) ELSE 2)
        shown == {k \in 1..Len(lines) : ~IsBlank(lines[k])}
    IN  IF titles # <<>> THEN titles
        ELSE IF shown = {} THEN <<>>
        ELSE <<Trim(lines[Min(shown)])>>

\* summarize_logs dividing by the days of the span, not the eligible days
summarize_logs_over_span(t, n, config_summary_days, files) ==
    LET allowed_weekdays == AllowedWeekdays(config_summary_days)
        c == CollectFrom(0,
                 [total_entries |-> 0, total_eligible_days |-> 0,
                  entries_by_day |-> <<>>],
                 t, n, allowed_weekdays, files)
    IN  IF c.entries_by_day = <<>>
        THEN [done |-> TRUE, no_entries |-> TRUE,
              total_entries |-> c.total_entries,
              total_eligible_days |-> c.total_eligible_days,
              consistency |-> 0, per_day |-> <<>>]
        ELSE [done |-> TRUE, no_entries |-> FALSE,
              total_entries |-> c.total_entries,
              total_eligible_days |-> c.total_eligible_days,
              consistency |-> ConsistencyTenths(c.total_entries, n),
              per_day |->
                  [k \in 1..Len(c.entries_by_day) |->
                      [date |-> c.entries_by_day[k].date,
                       lines |-> DayLines(c.entries_by_day[k].content)]]]

summarize_logs(t, n, config_summary_days, files) ==
    LET allowed_weekdays == AllowedWeekdays(config_summary_days)
        c == CollectFrom(0,
                 [total_entries |-> 0, total_eligible_days |-> 0,
                  entries_by_day |-> <<>>],
                 t, n, allowed_weekdays, files)
    IN  IF c.entries_by_day = <<>>
        THEN [done |-> TRUE, no_entries |-> TRUE,
              total_entries |-> c.total_entries,
              total_eligible_days |-> c.total_eligible_days,
              consistency |-> 0, per_day |-> <<>>]
        ELSE [done |-> TRUE, no_entries |-> FALSE,
              total_entries |-> c.total_entries,
              total_eligible_days |-> c.total_eligible_days,
              consistency |->
                  ConsistencyTenths(c.total_entries, c.total_eligible_days),
              per_day |->
                  [k \in 1..Len(c.entries_by_day) |->
                      [date |-> c.entries_by_day[k].date,
                       lines |-> DayLines(c.entries_by_day[k].content)]]]

(***************************************************************************)
(* main.rs                                                                 *)
(***************************************************************************)
\* the collecting loop `for i in 0..days` of the summarize_logs of main.rs,
\* from iteration i on
RECURSIVE MainCollectFrom(_, _, _, _, _)
MainCollectFrom(i, acc, t, n, files) ==
    IF i >= n THEN acc
    ELSE LET date == t - i
             recorded == files[i].exists /\ ~IsBlank(files[i].content)
         IN  MainCollectFrom(i + 1,
                 [total_entries |-> acc.total_entries + (IF recorded THEN 1 ELSE 0),
                  entries_by_day |->
                      IF recorded
                      THEN Append(acc.entries_by_day,
                                  [date |-> date, content |-> files[i].content])
                      ELSE acc.entries_by_day],
                 t, n, files)

\* summarize_logs(log_dir, days) of main.rs, the one `summary` is dispatched
\* to; total_eligible_days is the number of days it prints after the slash
main_summarize_logs(t, n, files) ==
    LET c == MainCollectFrom(0, [total_entries |-> 0, entries_by_day |-> <<>>],
                             t, n, files)
    IN  IF c.entries_by_day = <<>>
        THEN [done |-> TRUE, no_entries |-> TRUE,
              total_entries |-> c.total_entries, total_eligible_days |-> n,
              consistency |-> 0, per_day |-> <<>>]
        ELSE [done |-> TRUE, no_entries |-> FALSE,
              total_entries |-> c.total_entries, total_eligible_days |-> n,
              consistency |-> ConsistencyTenths(c.total_entries, n),
              per_day |->
                  [k \in 1..Len(c.entries_by_day) |->
                      [date |-> c.entries_by_day[k].date,
                       lines |-> DayLines(c.entries_by_day[k].content)]]]

(***************************************************************************)
(* config.rs                                                               *)
(***************************************************************************)
\* the keys of the configuration file
ConfigKeys == {"log_dir", "git_repo", "git_auto_sync", "git_branch_name", "summary_days"}

\* the configuration file is missing
NoFile == [exists |-> FALSE, toml |-> "ok", keys |-> {}, auto_sync |-> FALSE]

\* a configuration file: whether its text is TOML that fits Config ("ok"),
\* is no TOML ("syntax error") or gives a key a value of the wrong type
\* ("type error"); the keys it sets; the value it gives git_auto_sync
ConfigFile(toml, keys, auto_sync) ==
    [exists |-> TRUE, toml |-> toml, keys |-> keys, auto_sync |-> auto_sync]

\* fs::read_to_string(&config_path).unwrap_or_default(): a missing file
\* reads as the empty string, which is TOML setting no key
read_to_string_or_default(f) ==
    IF f.exists THEN f ELSE ConfigFile("ok", {}, FALSE)

default_log_dir == "~/.dailylog"

default_branch == "master"

\* config.rs default_summary_days
DefaultSummaryDays ==
    << <<"m", "o", "n", "d", "a", "y">>,
       <<"t", "u", "e", "s", "d", "a", "y">>,
       <<"w", "e", "d", "n", "e", "s", "d", "a", "y">>,
       <<"t", "h", "u", "r", "s", "d", "a", "y">>,
       <<"f", "r", "i", "d", "a", "y">> >>

\* Config::default() of #[derive(Default)]: every field's own Default
ConfigDefault ==
    [log_dir |-> "", git_repo |-> None, git_auto_sync |-> None,
     git_branch_name |-> "", summary_days |-> <<>>]

\* what serde builds from TOML that fits Config: the value of a key that is
\* set, the #[serde(default = ..)] of a key that is not, None for an Option
Deserialized(str) ==
    [log_dir |-> IF "log_dir" \in str.keys THEN "/logs" ELSE default_log_dir,
     git_repo |-> IF "git_repo" \in str.keys THEN Some("url") ELSE None,
     git_auto_sync |->
         IF "git_auto_sync" \in str.keys THEN Some(str.auto_sync) ELSE None,
     git_branch_name |->
         IF "git_branch_name" \in str.keys THEN "main" ELSE default_branch,
     summary_days |->
         IF "summary_days" \in str.keys THEN << <<"s", "a", "t">> >>
         ELSE DefaultSummaryDays]

\* toml::from_str(&config_str).unwrap_or_default()
from_str_or_default(str) ==
    IF str.toml = "ok" THEN Deserialized(str) ELSE ConfigDefault

\* load_config(): an error when the home directory does not resolve
load_config(home_resolves, f) ==
    IF ~home_resolves
    THEN [loaded |-> TRUE, result |-> "Err", value |-> ConfigDefault]
    ELSE [loaded |-> TRUE, result |-> "Ok",
          value |-> from_str_or_default(read_to_string_or_default(f))]

\* load_config not called yet
NoConfig == [loaded |-> FALSE, result |-> "Ok", value |-> ConfigDefault]

(***************************************************************************)
(* git.rs                                                                  *)
(***************************************************************************)
\* the places that run a git command whose exit status decides the result
GitSites ==
    {"init", "remote add", "init pull", "checkout", "pull", "add", "commit", "push"}

\* run_git_command at a site, under the outcomes out of this invocation:
\* the event of running it
Ran(site, out) == [site |-> site, ok |-> out.ok[site]]

\* init_git_repo handing a failed pull to its caller
init_git_repo_failing_on_pull(repo, out) ==
    IF repo THEN [result |-> "Ok", trace |-> <<>>, is_repo |-> TRUE]
    ELSE IF ~out.ok["init"]
    THEN [result |-> "Err", trace |-> <<Ran("init", out)>>, is_repo |-> FALSE]
    ELSE IF ~out.ok["remote add"]
    THEN [result |-> "Err",
          trace |-> <<Ran("init", out), Ran("remote add", out)>>,
          is_repo |-> TRUE]
    ELSE [result |-> IF out.ok["init pull"] THEN "Ok" ELSE "Err",
          trace |-> <<Ran("init", out), Ran("remote add", out), Ran("init pull", out)>>,
          is_repo |-> TRUE]

\* init_git_repo(log_dir, repo_url, branch)
init_git_repo(repo, out) ==
    IF repo THEN [result |-> "Ok", trace |-> <<>>, is_repo |-> TRUE]
    ELSE IF ~out.ok["init"]
    THEN [result |-> "Err", trace |-> <<Ran("init", out)>>, is_repo |-> FALSE]
    ELSE IF ~out.ok["remote add"]
    THEN [result |-> "Err",
          trace |-> <<Ran("init", out), Ran("remote add", out)>>,
          is_repo |-> TRUE]
    ELSE IF out.ok["init pull"]
    THEN [result |-> "Ok",
          trace |-> <<Ran("init", out), Ran("remote add", out), Ran("init pull", out)>>,
          is_repo |-> TRUE]
    ELSE [result |-> IF out.ok["checkout"] THEN "Ok" ELSE "Err",
          trace |-> <<Ran("init", out), Ran("remote add", out),
                      Ran("init pull", out), Ran("checkout", out)>>,
          is_repo |-> TRUE]

\* git_pull(log_dir, branch)
git_pull(repo, out) ==
    IF ~repo THEN [result |-> "Err", trace |-> <<>>, is_repo |-> repo]
    ELSE [result |-> IF out.ok["pull"] THEN "Ok" ELSE "Err",
          trace |-> <<Ran("pull", out)>>, is_repo |-> repo]

\* `git status --porcelain`, whose exit status is not looked at
RanStatus(out) == [site |-> "status", ok |-> out.status # "Err"]

\* git_push(log_dir, branch)
git_push(repo, out) ==
    IF ~repo THEN [result |-> "Err", trace |-> <<>>, is_repo |-> repo]
    ELSE IF ~out.ok["add"]
    THEN [result |-> "Err", trace |-> <<Ran("add", out)>>, is_repo |-> repo]
    ELSE IF out.status = "Err"
    THEN [result |-> "Err", trace |-> <<Ran("add", out), RanStatus(out)>>,
          is_repo |-> repo]
    ELSE IF out.status = "empty"
    THEN [result |-> "Ok", trace |-> <<Ran("add", out), RanStatus(out)>>,
          is_repo |-> repo]
    ELSE IF ~out.ok["commit"]
    THEN [result |-> "Err",
          trace |-> <<Ran("add", out), RanStatus(out), Ran("commit", out)>>,
          is_repo |-> repo]
    ELSE [result |-> IF out.ok["push"] THEN "Ok" ELSE "Err",
          trace |-> <<Ran("add", out), RanStatus(out), Ran("commit", out),
                      Ran("push", out)>>,
          is_repo |-> repo]

\* git_sync pushing before it pulls
git_sync_push_first(cfg, repo, out) ==
    IF ~cfg.git_repo.some
    THEN [result |-> "Err", trace |-> <<>>, is_repo |-> repo]
    ELSE LET i == IF ~repo THEN init_git_repo(repo, out)
                  ELSE [result |-> "Ok", trace |-> <<>>, is_repo |-> repo]
         IN  IF i.result = "Err" THEN i
             ELSE LET ps == git_push(i.is_repo, out)
                  IN  IF ps.result = "Err"
                      THEN [result |-> "Err", trace |-> i.trace \o ps.trace,
                            is_repo |-> i.is_repo]
                      ELSE LET pl == git_pull(i.is_repo, out)
                           IN  [result |-> pl.result,
                                trace |-> i.trace \o ps.trace \o pl.trace,
                                is_repo |-> i.is_repo]

\* git_sync going on to push whatever git_pull returned
git_sync_ignoring_pull(cfg, repo, out) ==
    IF ~cfg.git_repo.some
    THEN [result |-> "Err", trace |-> <<>>, is_repo |-> repo]
    ELSE LET i == IF ~repo THEN init_git_repo(repo, out)
                  ELSE [result |-> "Ok", trace |-> <<>>, is_repo |-> repo]
         IN  IF i.result = "Err" THEN i
             ELSE LET pl == git_pull(i.is_repo, out)
                      ps == git_push(i.is_repo, out)
                  IN  [result |-> ps.result,
                       trace |-> i.trace \o pl.trace \o ps.trace,
                       is_repo |-> i.is_repo]

\* git_sync(config)
git_sync(cfg, repo, out) ==
    IF ~cfg.git_repo.some
    THEN [result |-> "Err", trace |-> <<>>, is_repo |-> repo]
    ELSE LET i == IF ~repo THEN init_git_repo(repo, out)
                  ELSE [result |-> "Ok", trace |-> <<>>, is_repo |-> repo]
         IN  IF i.result = "Err" THEN i
             ELSE LET pl == git_pull(i.is_repo, out)
                  IN  IF pl.result = "Err"
                      THEN [result |-> "Err", trace |-> i.trace \o pl.trace,
                            is_repo |-> i.is_repo]
                      ELSE LET ps == git_push(i.is_repo, out)
                           IN  [result |-> ps.result,
                                trace |-> i.trace \o pl.trace \o ps.trace,
                                is_repo |-> i.is_repo]

\* Option<bool>::unwrap_or(false)
UnwrapOrFalse(o) == IF o.some THEN o.val ELSE FALSE

\* auto_sync_if_enabled handing the error of git_sync to its caller
auto_sync_if_enabled_propagating(cfg, repo, out) ==
    IF UnwrapOrFalse(cfg.git_auto_sync) /\ cfg.git_repo.some
    THEN LET s == git_sync(cfg, repo, out)
         IN  [result |-> s.result, trace |-> s.trace, is_repo |-> s.is_repo,
              warning |-> s.result = "Err"]
    ELSE [result |-> "Ok", trace |-> <<>>, is_repo |-> repo, warning |-> FALSE]

\* auto_sync_if_enabled(config)
auto_sync_if_enabled(cfg, repo, out) ==
    IF UnwrapOrFalse(cfg.git_auto_sync) /\ cfg.git_repo.some
    THEN LET s == git_sync(cfg, repo, out)
         IN  [result |-> "Ok", trace |-> s.trace, is_repo |-> s.is_repo,
              warning |-> s.result = "Err"]
    ELSE [result |-> "Ok", trace |-> <<>>, is_repo |-> repo, warning |-> FALSE]

(***************************************************************************)
(* Inputs                                                                  *)
(***************************************************************************)
\* the characters editor texts are made of
Alphabet == {"a", "-", " ", "\n"}

\* every editor text of at most MaxLen characters
Texts == UNION {[1..n -> Alphabet] : n \in 0..MaxLen}

\* the pieces markdown contents are made of: the characters of a header line
\* and the two separators the extractor looks for
Pieces ==
    {<<"a">>, <<"-">>, <<" ">>, <<"\n">>, <<"#">>, <<"#", " ">>, <<" ", "-", " ">>}

RECURSIVE Concat(_)
Concat(ps) == IF Len(ps) = 0 THEN <<>> ELSE ps[1] \o Concat(Tail(ps))

\* every concatenation of at most MaxPieces pieces
Markdowns == {Concat(ps) : ps \in UNION {[1..n -> Pieces] : n \in 0..MaxPieces}}

\* wall-clock readings <<hour, minute>> of Local::now()
Times == {<<9, 5>>, <<23, 59>>}

\* titles format_entry is called with when it is not fed by parse_entry
TitleArgs == {None, Some(<<>>), Some(<<"a">>)}

\* the target file before the call: missing, or holding an earlier entry
InitFiles ==
    {Absent,
     Existing(<<"#", "#", " ", "0", "9", ":", "0", "5", " ", "-", " ", "a", "\n", "\n">>)}

\* the summary_days settings tried: the default, and a list with
\* abbreviations in mixed case and a name that is no day
SummaryDaysChoices ==
    {DefaultSummaryDays,
     << <<"S", "a", "t">>, <<"S", "U", "N">>, <<"m", "o", "n", "d", "a", "y", "y">>,
        <<"w", "e", "d">> >>}

\* a log file older than the window of the summary
OlderEntry ==
    Existing(<<"#", "#", " ", "0", "9", ":", "0", "5", " ", "-", " ", "a", "\n", "\n">>)

\* a day's log file: missing, whitespace only, or holding an entry
DayFiles ==
    {Absent,
     Existing(<<" ", "\n">>),
     OlderEntry}

\* the files of the dates today, today - 1, ..., today - n: any files inside
\* the window of n days, and an entry on the day just before the window
WindowFiles(n) ==
    {[i \in 0..n |-> IF i < n THEN w[i] ELSE OlderEntry] :
        w \in [0..(n - 1) -> DayFiles]}

\* summary_days settings at the edges: no name at all, no name that is a
\* day, one weekday named three times, and every weekday
EdgeSummaryDays ==
    {<< >>,
     << <<"m", "o", "n", "d", "a", "y", "y">>, <<"m", "o">>, << >> >>,
     << <<"m", "o", "n">>, <<"M", "o", "n", "d", "a", "y">>, <<"M", "O", "N">>,
        <<"t", "u", "e">> >>,
     << <<"m", "o", "n">>, <<"t", "u", "e">>, <<"w", "e", "d">>, <<"t", "h", "u">>,
        <<"f", "r", "i">>, <<"s", "a", "t">>, <<"s", "u", "n">> >>}

\* a day's log file written by hand: without a header line, and with its
\* first non-blank line first, second or third
EdgeDayFiles ==
    {Absent,
     Existing(<<"\n">>),
     OlderEntry,
     Existing(<<" ", "a", " ", "\n", "b">>),
     Existing(<<"\n", " ", "a">>),
     Existing(<<"\n", "\n", "a", "\n">>)}

\* the files of the dates today, ..., today - n drawn from EdgeDayFiles
EdgeWindowFiles(n) ==
    {[i \in 0..n |-> IF i < n THEN w[i] ELSE OlderEntry] :
        w \in [0..(n - 1) -> EdgeDayFiles]}

\* the English day names in lower case, Monday first
DayNameTable ==
    << <<"m", "o", "n", "d", "a", "y">>,
       <<"t", "u", "e", "s", "d", "a", "y">>,
       <<"w", "e", "d", "n", "e", "s", "d", "a", "y">>,
       <<"t", "h", "u", "r", "s", "d", "a", "y">>,
       <<"f", "r", "i", "d", "a", "y">>,
       <<"s", "a", "t", "u", "r", "d", "a", "y">>,
       <<"s", "u", "n", "d", "a", "y">> >>

\* the upper-case form of an ASCII letter
UpperChar(c) ==
    LET ks == {k \in 1..Len(LowerCase) : LowerCase[k] = c}
    IN  IF ks = {} THEN c ELSE UpperCase[Min(ks)]

\* a lower-case word written in every mix of upper and lower case
RECURSIVE CaseVariants(_)
CaseVariants(w) ==
    IF Len(w) = 0 THEN {<<>>}
    ELSE {<<c>> \o r : c \in {w[1], UpperChar(w[1])}, r \in CaseVariants(Tail(w))}

\* the day strings tried: every beginning of every day name (the empty one,
\* the abbreviation and the full name among them) in every letter case, and
\* the abbreviations and full names followed by one more character
DayStrings ==
    UNION {UNION {CaseVariants(SubSeq(DayNameTable[k], 1, n)) :
                     n \in 0..Len(DayNameTable[k])} : k \in 1..Len(DayNameTable)}
    \cup {SubSeq(DayNameTable[k], 1, 3) \o <<c>> :
              k \in 1..Len(DayNameTable), c \in {" ", ".", "s"}}
    \cup {DayNameTable[k] \o <<c>> : k \in 1..Len(DayNameTable), c \in {" ", "s"}}

\* texts the editor returns in a session of several operations: empty,
\* whitespace only, a title, a title with a body, and a text without title
EditorTexts ==
    {<<>>,
     <<" ", "\n">>,
     <<"a">>,
     <<"a", "\n", "\n", "b">>,
     <<"\n", "a">>}

\* the configuration files tried: none, and every kind of text over every
\* set of keys (a type error needs a key to be wrong about)
ConfigFiles ==
    {NoFile}
    \cup ({ConfigFile(toml, keys, auto_sync) :
              toml \in {"ok", "syntax error", "type error"},
              keys \in SUBSET ConfigKeys,
              auto_sync \in BOOLEAN}
          \ {ConfigFile("type error", {}, auto_sync) : auto_sync \in BOOLEAN})

\* no command dispatched yet
NoRun == [command |-> "none"]

\* how the git commands of one invocation end: the exit status at each
\* site, and what `git status --porcelain` prints (or its failing to run)
GitOutcomes == [ok : [GitSites -> BOOLEAN], status : {"empty", "changes", "Err"}]

\* the configuration files of the command runs: none, one that is no TOML,
\* and every setting of git_repo and git_auto_sync
CommandConfigFiles ==
    {NoFile, ConfigFile("syntax error", {}, FALSE)}
    \cup {ConfigFile("ok", keys, auto_sync) :
             keys \in SUBSET {"git_repo", "git_auto_sync"}, auto_sync \in BOOLEAN}

\* the event of append_to_log writing the entry
Wrote == [site |-> "append_to_log", ok |-> TRUE]

\* what main did: the command, whether the editor ran and its text, the
\* log files before, the file write and git commands in their order, the
\* result of main, and whether the auto-sync warning was printed
Ran_main(command, edited, entry, before, events, result, warning) ==
    [command |-> command, edited |-> edited, entry |-> entry, before |-> before,
     events |-> events, result |-> result, warning |-> warning]

\* the configuration files of the git commands: none, one that is no TOML,
\* and one that sets git_repo
GitConfigFiles ==
    {NoFile, ConfigFile("syntax error", {}, FALSE), ConfigFile("ok", {"git_repo"}, FALSE)}

\* whether every `pull origin <branch>` among the events failed
PullsFailed(events) ==
    \A k \in 1..Len(events) : events[k].site \in {"pull", "init pull"} => ~events[k].ok

\* what a git command of the binary did: the command, whether log_dir was a
\* repository before it, the git commands it ran in their order, its result,
\* how many commands have run, and whether every pull so far has failed
Ran_git(command, was_repo, events, result, runs, pulls_failed) ==
    [command |-> command, was_repo |-> was_repo, events |-> events,
     result |-> result, runs |-> runs, pulls_failed |-> pulls_failed]

\* no git command run yet
NoGitRun == Ran_git("none", FALSE, <<>>, "Ok", 0, TRUE)

\* the log directories tried: absolute, relative, with a trailing separator,
\* and the empty log_dir of a configuration that did not parse
LogDirs == {<<"/", "l">>, <<"l">>, <<"l", "/">>, <<>>}

\* the daylight-saving rules of the Local zone
Zones == {"none", "forward", "back"}

\* the configuration files of the `summary` command: none, and one that
\* sets summary_days
SummaryConfigFiles == {NoFile, ConfigFile("ok", {"summary_days"}, FALSE)}

NoSummary ==
    [done |-> FALSE, no_entries |-> FALSE, total_entries |-> 0,
     total_eligible_days |-> 0, consistency |-> 0, per_day |-> <<>>]

NoRes ==
    [op |-> "none", parsed |-> FALSE, title |-> None, body |-> <<>>,
     now |-> <<0, 0>>, fragment |-> <<>>, before |-> Absent, titles |-> <<>>,
     weekday |-> NoWeekday, shown |-> [result |-> "Ok", message |-> "", content |-> <<>>, file |-> Absent],
     date |-> 0, path |-> <<>>]

(***************************************************************************)
(* Operations                                                              *)
(***************************************************************************)
\* parse_entry(input)
ParseEntry ==
    /\ res.op = "none"
    /\ res' = [NoRes EXCEPT !.op = "parse", !.parsed = TRUE,
                            !.title = parse_entry(input).title,
                            !.body = parse_entry(input).body]
    /\ UNCHANGED <<input, file, summaryVars, sysVars, timeVars>>

\* format_entry on what parse_entry returned (as append_to_log calls it), or
\* on a title of TitleArgs and input as the body
FormatEntry ==
    /\ res.op \in {"none", "parse"}
    /\ \E now \in Times :
       \E title \in IF res.op = "parse" THEN {res.title} ELSE TitleArgs :
          LET body == IF res.op = "parse" THEN res.body ELSE input
          IN  res' = [res EXCEPT !.op = "format", !.title = title, !.body = body,
                                 !.now = now,
                                 !.fragment = format_entry(title, body, now)]
    /\ UNCHANGED <<input, file, summaryVars, sysVars, timeVars>>

\* extract_entry_titles on a formatted fragment
ExtractFormatted ==
    /\ res.op = "format"
    /\ res' = [res EXCEPT !.op = "extract",
                          !.titles = extract_entry_titles(res.fragment)]
    /\ UNCHANGED <<input, file, summaryVars, sysVars, timeVars>>

\* append_to_log(path, input)
AppendToLog ==
    /\ res.op = "none"
    /\ \E now \in Times :
          /\ file' = append_to_log(file, input, now)
          /\ res' = [NoRes EXCEPT !.op = "append", !.now = now, !.before = file]
    /\ UNCHANGED <<input, summaryVars, sysVars, timeVars>>

\* the `summary` command: summarize_logs(log_dir, days, config)
Summarize ==
    /\ ~summary.done
    /\ summary' = summarize_logs(today, days, summary_days, logs)
    /\ UNCHANGED <<entryVars, today, days, summary_days, logs, sysVars, timeVars>>

\* extract_entry_titles(input)
ExtractEntryTitles ==
    /\ res.op = "none"
    /\ res' = [NoRes EXCEPT !.op = "titles",
                            !.titles = extract_entry_titles(input)]
    /\ UNCHANGED <<input, file, summaryVars, sysVars, timeVars>>

\* parse_weekday(input)
ParseWeekday ==
    /\ res.op = "none"
    /\ res' = [NoRes EXCEPT !.op = "weekday", !.weekday = parse_weekday(input)]
    /\ UNCHANGED <<input, file, summaryVars, sysVars, timeVars>>

\* append_to_log(today's path, entry) with entry from the editor
AppendToday ==
    /\ Len(logs[0].content) <= MaxLogLen
    /\ \E entry \in EditorTexts, now \in Times :
          /\ logs' = [logs EXCEPT ![0] = append_to_log(logs[0], entry, now)]
          /\ input' = entry
          /\ res' = [NoRes EXCEPT !.op = "append", !.now = now, !.before = logs[0]]
    /\ UNCHANGED <<file, today, days, summary_days, summary, sysVars, timeVars>>

\* add_to_previous_day_log(log_dir)
AddToPreviousDayLog ==
    /\ Len(logs[1].content) <= MaxLogLen
    /\ \E entry \in EditorTexts, now \in Times :
          /\ logs' = [logs EXCEPT ![1] = add_to_previous_day_log(logs[1], entry, now)]
          /\ input' = entry
          /\ res' = [NoRes EXCEPT !.op = "yesterday", !.now = now, !.before = logs[1]]
    /\ UNCHANGED <<file, today, days, summary_days, summary, sysVars, timeVars>>

\* edit_today_log(today's path): the editor opens on the existing content and
\* returns it as it was, or one of EditorTexts
EditTodayLog ==
    /\ \E new_content \in EditorTexts \cup {logs[0].content} :
          /\ logs' = [logs EXCEPT ![0] = edit_today_log(logs[0], new_content)]
          /\ input' = new_content
          /\ res' = [NoRes EXCEPT !.op = "edit", !.before = logs[0]]
    /\ UNCHANGED <<file, today, days, summary_days, summary, sysVars, timeVars>>

\* view_previous_day_log(log_dir)
ViewPreviousDayLog ==
    /\ res' = [NoRes EXCEPT !.op = "previous", !.before = logs[1],
                            !.shown = view_previous_day_log(logs[1])]
    /\ logs' = [logs EXCEPT ![1] = view_previous_day_log(logs[1]).file]
    /\ UNCHANGED <<input, file, today, days, summary_days, summary, sysVars, timeVars>>

\* main with `previous`: load_config and view_previous_day_log
PreviousCommand ==
    /\ run.command = "none"
    /\ LET cfg == load_config(home, cfg_file)
           v == view_previous_day_log(logs[1])
       IN  /\ config' = cfg
           /\ IF cfg.result = "Err"
              THEN /\ run' = Ran_main("previous", FALSE, <<>>, logs, <<>>, "Err", FALSE)
                   /\ UNCHANGED <<res, logs>>
              ELSE /\ run' = Ran_main("previous", FALSE, <<>>, logs, <<>>, v.result,
                                      FALSE)
                   /\ res' = [NoRes EXCEPT !.op = "previous", !.before = logs[1],
                                           !.shown = v]
                   /\ logs' = [logs EXCEPT ![1] = v.file]
    /\ UNCHANGED <<input, file, today, days, summary_days, summary, cfg_file, home,
                   is_repo, timeVars>>

\* load_config()
LoadConfig ==
    /\ ~config.loaded
    /\ config' = load_config(home, cfg_file)
    /\ UNCHANGED <<entryVars, summaryVars, cfg_file, home, is_repo, run, timeVars>>

\* main without a subcommand: load_config, the editor, append_to_log, and
\* auto_sync_if_enabled after a write
DefaultCommand ==
    /\ run.command = "none"
    /\ \E entry \in EditorTexts, now \in Times, out \in GitOutcomes :
          LET cfg == load_config(home, cfg_file)
              s == auto_sync_if_enabled(cfg.value, is_repo, out)
          IN  /\ config' = cfg
              /\ IF cfg.result = "Err"
                 THEN /\ run' = Ran_main("default", FALSE, <<>>, logs, <<>>, "Err", FALSE)
                      /\ UNCHANGED <<logs, is_repo>>
                 ELSE IF ~IsBlank(entry)
                 THEN /\ logs' = [logs EXCEPT ![0] = append_to_log(logs[0], entry, now)]
                      /\ is_repo' = s.is_repo
                      /\ run' = Ran_main("default", TRUE, entry, logs,
                                         <<Wrote>> \o s.trace, s.result, s.warning)
                 ELSE /\ run' = Ran_main("default", TRUE, entry, logs, <<>>, "Ok", FALSE)
                      /\ UNCHANGED <<logs, is_repo>>
    /\ UNCHANGED <<entryVars, today, days, summary_days, summary, cfg_file, home, timeVars>>

\* main with `yesterday`: load_config, add_to_previous_day_log, and then
\* auto_sync_if_enabled
YesterdayCommand ==
    /\ run.command = "none"
    /\ \E entry \in EditorTexts, now \in Times, out \in GitOutcomes :
          LET cfg == load_config(home, cfg_file)
              s == auto_sync_if_enabled(cfg.value, is_repo, out)
          IN  /\ config' = cfg
              /\ IF cfg.result = "Err"
                 THEN /\ run' = Ran_main("yesterday", FALSE, <<>>, logs, <<>>, "Err", FALSE)
                      /\ UNCHANGED <<logs, is_repo>>
                 ELSE /\ logs' = [logs EXCEPT
                                     ![1] = add_to_previous_day_log(logs[1], entry, now)]
                      /\ is_repo' = s.is_repo
                      /\ run' = Ran_main("yesterday", TRUE, entry, logs,
                                         (IF ~IsBlank(entry) THEN <<Wrote>> ELSE <<>>)
                                             \o s.trace,
                                         s.result, s.warning)
    /\ UNCHANGED <<entryVars, today, days, summary_days, summary, cfg_file, home, timeVars>>

\* what a git command of main leaves behind: g is what the git function
\* returned on the configuration cfg that was loaded
GitCommandDone(command, cfg, g) ==
    /\ config' = cfg
    /\ IF cfg.result = "Err"
       THEN /\ run' = Ran_git(command, is_repo, <<>>, "Err", run.runs + 1,
                              run.pulls_failed)
            /\ UNCHANGED is_repo
       ELSE /\ run' = Ran_git(command, is_repo, g.trace, g.result, run.runs + 1,
                              run.pulls_failed /\ PullsFailed(g.trace))
            /\ is_repo' = g.is_repo
    /\ UNCHANGED <<entryVars, summaryVars, cfg_file, home, timeVars>>

\* main with `sync`: load_config and git_sync
SyncCommand ==
    /\ run.runs < MaxRuns
    /\ \E out \in GitOutcomes :
          LET cfg == load_config(home, cfg_file)
          IN  GitCommandDone("sync", cfg, git_sync(cfg.value, is_repo, out))

\* main with `pull`: load_config and git_pull
PullCommand ==
    /\ run.runs < MaxRuns
    /\ \E out \in GitOutcomes :
          GitCommandDone("pull", load_config(home, cfg_file), git_pull(is_repo, out))

\* main with `push`: load_config and git_push
PushCommand ==
    /\ run.runs < MaxRuns
    /\ \E out \in GitOutcomes :
          GitCommandDone("push", load_config(home, cfg_file), git_push(is_repo, out))

\* init_git_repo(log_dir, repo_url, branch) called on its own
InitGitRepo ==
    /\ run.runs < MaxRuns
    /\ config.loaded
    /\ config.result = "Ok"
    /\ config.value.git_repo.some
    /\ \E out \in GitOutcomes :
          GitCommandDone("init_git_repo", config, init_git_repo(is_repo, out))

\* get_log_file_path_for_date(input, date) for the date of some day
GetLogFilePathForDate ==
    /\ res.op = "none"
    /\ \E n \in (-1)..MaxDay :
          res' = [NoRes EXCEPT !.op = "path_for", !.date = n,
                               !.path = get_log_file_path_for_date(input, DateOf(n))]
    /\ UNCHANGED <<input, file, summaryVars, sysVars, timeVars>>

\* get_log_file_path(input)
GetLogFilePath ==
    /\ res.op = "none"
    /\ res' = [NoRes EXCEPT !.op = "today_path",
                            !.path = get_log_file_path(input, zone, clock)]
    /\ UNCHANGED <<input, file, summaryVars, sysVars, timeVars>>

\* get_previous_day_log_path(input)
GetPreviousDayLogPath ==
    /\ res.op = "none"
    /\ res' = [NoRes EXCEPT !.op = "previous_day_path",
                            !.path = get_previous_day_log_path(input, zone, clock)]
    /\ UNCHANGED <<input, file, summaryVars, sysVars, timeVars>>

\* main with `summary --days <days>`: load_config and the summarize_logs of
\* main.rs
SummaryCommand ==
    /\ run.command = "none"
    /\ LET cfg == load_config(home, cfg_file)
       IN  /\ config' = cfg
           /\ IF cfg.result = "Err"
              THEN /\ run' = Ran_main("summary", FALSE, <<>>, logs, <<>>, "Err", FALSE)
                   /\ UNCHANGED summary
              ELSE /\ run' = Ran_main("summary", FALSE, <<>>, logs, <<>>, "Ok", FALSE)
                   /\ summary' = main_summarize_logs(today, days, logs)
    /\ UNCHANGED <<entryVars, today, days, summary_days, logs, cfg_file, home, is_repo,
                   timeVars>>

(***************************************************************************)
(* Specifications                                                          *)
(***************************************************************************)
\* the clock is not read in this run
NoClockRead ==
    /\ clock = 0
    /\ zone = "none"

\* the configuration is not loaded and no command is dispatched in this run
NoCommandRun ==
    /\ cfg_file = NoFile
    /\ home = TRUE
    /\ config = NoConfig
    /\ is_repo = FALSE
    /\ run = NoRun

\* no `summary` command in this run
NoSummaryRun ==
    /\ today = 0
    /\ days = 0
    /\ summary_days = <<>>
    /\ logs = [i \in 0..0 |-> Absent]
    /\ summary = NoSummary

Init ==
    /\ input \in Texts
    /\ file \in InitFiles
    /\ res = NoRes
    /\ NoClockRead
    /\ NoSummaryRun
    /\ NoCommandRun

Next == ParseEntry \/ FormatEntry \/ ExtractFormatted \/ AppendToLog

\* the entry pipeline: parse, format, append
Spec == Init /\ [][Next]_vars

InitTitles ==
    /\ input \in Markdowns
    /\ file = Absent
    /\ res = NoRes
    /\ NoClockRead
    /\ NoSummaryRun
    /\ NoCommandRun

NextTitles == ExtractEntryTitles

\* the title extractor on markdown contents
SpecTitles == InitTitles /\ [][NextTitles]_vars

InitSummary ==
    /\ input = <<>>
    /\ file = Absent
    /\ res = NoRes
    /\ NoClockRead
    /\ today \in 0..6
    /\ days \in 0..MaxSpan
    /\ summary_days \in SummaryDaysChoices
    /\ logs \in WindowFiles(days)
    /\ summary = NoSummary
    /\ NoCommandRun

NextSummary == Summarize

\* the summary aggregator over a window of log files
SpecSummary == InitSummary /\ [][NextSummary]_vars

InitSummaryEdge ==
    /\ input = <<>>
    /\ file = Absent
    /\ res = NoRes
    /\ NoClockRead
    /\ today \in 0..6
    /\ days \in 0..MaxShortSpan
    /\ summary_days \in EdgeSummaryDays
    /\ logs \in EdgeWindowFiles(days)
    /\ summary = NoSummary
    /\ NoCommandRun

\* the summary aggregator over short windows of hand-written files, under
\* unusual summary_days settings
SpecSummaryEdge == InitSummaryEdge /\ [][NextSummary]_vars

InitWeekday ==
    /\ input \in DayStrings
    /\ file = Absent
    /\ res = NoRes
    /\ NoClockRead
    /\ today = 0
    /\ days = 7
    /\ summary_days = <<input, <<"f", "r", "i">> >>
    /\ logs = [i \in 0..7 |-> OlderEntry]
    /\ summary = NoSummary
    /\ NoCommandRun

NextWeekday == ParseWeekday \/ Summarize

\* the weekday parser on day strings, and a week's summary under a
\* summary_days list holding the day string
SpecWeekday == InitWeekday /\ [][NextWeekday]_vars

InitLog ==
    /\ input = <<>>
    /\ file = Absent
    /\ res = NoRes
    /\ NoClockRead
    /\ today = 1
    /\ days = 2
    /\ summary_days = DefaultSummaryDays
    /\ logs = [i \in 0..1 |-> Absent]
    /\ summary = NoSummary
    /\ NoCommandRun

NextLog ==
    \/ AppendToday
    \/ AddToPreviousDayLog
    \/ EditTodayLog
    \/ ViewPreviousDayLog
    \/ Summarize

\* a session of operations on today's and the previous day's log files,
\* starting with an empty log directory on a Tuesday
SpecLog == InitLog /\ [][NextLog]_vars

InitConfig ==
    /\ input = <<>>
    /\ file = Absent
    /\ res = NoRes
    /\ NoClockRead
    /\ NoSummaryRun
    /\ cfg_file \in ConfigFiles
    /\ home \in BOOLEAN
    /\ config = NoConfig
    /\ is_repo = FALSE
    /\ run = NoRun

NextConfig == LoadConfig

\* loading the configuration
SpecConfig == InitConfig /\ [][NextConfig]_vars

InitCommand ==
    /\ input = <<>>
    /\ file = Absent
    /\ res = NoRes
    /\ NoClockRead
    /\ today = 1
    /\ days = 2
    /\ summary_days = <<>>
    /\ logs \in [0..1 -> {Absent, OlderEntry}]
    /\ summary = NoSummary
    /\ cfg_file \in CommandConfigFiles
    /\ home \in BOOLEAN
    /\ config = NoConfig
    /\ is_repo \in BOOLEAN
    /\ run = NoRun

NextCommand == DefaultCommand \/ YesterdayCommand

\* one invocation of the journaling commands of the binary
SpecCommand == InitCommand /\ [][NextCommand]_vars

InitGit ==
    /\ input = <<>>
    /\ file = Absent
    /\ res = NoRes
    /\ NoClockRead
    /\ NoSummaryRun
    /\ cfg_file \in GitConfigFiles
    /\ home \in BOOLEAN
    /\ config = NoConfig
    /\ is_repo \in BOOLEAN
    /\ run = NoGitRun

NextGit == SyncCommand \/ PullCommand \/ PushCommand \/ InitGitRepo

\* the git commands of the binary, one after the other
SpecGit == InitGit /\ [][NextGit]_vars

InitPath ==
    /\ input \in LogDirs
    /\ file = Absent
    /\ res = NoRes
    /\ NoSummaryRun
    /\ NoCommandRun
    /\ clock \in 0..MaxClock
    /\ zone \in Zones

NextPath == GetLogFilePathForDate \/ GetLogFilePath \/ GetPreviousDayLogPath

\* the path resolver, called at some instant in some time zone
SpecPath == InitPath /\ [][NextPath]_vars

InitPrevious ==
    /\ input = <<>>
    /\ file = Absent
    /\ res = NoRes
    /\ NoClockRead
    /\ today = 1
    /\ days = 2
    /\ summary_days = <<>>
    /\ logs \in [0..1 -> EdgeDayFiles]
    /\ summary = NoSummary
    /\ cfg_file \in GitConfigFiles
    /\ home \in BOOLEAN
    /\ config = NoConfig
    /\ is_repo = FALSE
    /\ run = NoRun

NextPrevious == PreviousCommand

\* one invocation of the `previous` command over hand-written log files
SpecPrevious == InitPrevious /\ [][NextPrevious]_vars

InitSummaryCommand ==
    /\ input = <<>>
    /\ file = Absent
    /\ res = NoRes
    /\ NoClockRead
    /\ today \in 0..6
    /\ days \in 0..MaxShortSpan
    /\ cfg_file \in SummaryConfigFiles
    /\ summary_days = from_str_or_default(read_to_string_or_default(cfg_file)).summary_days
    /\ logs \in WindowFiles(days)
    /\ summary = NoSummary
    /\ home \in BOOLEAN
    /\ config = NoConfig
    /\ is_repo = FALSE
    /\ run = NoRun

NextSummaryCommand == SummaryCommand

\* one invocation of the `summary` command of the binary; summary_days is
\* what the configuration file sets
SpecSummaryCommand == InitSummaryCommand /\ [][NextSummaryCommand]_vars

(***************************************************************************)
(* Properties                                                              *)
(***************************************************************************)
\* the 1-based positions after the first line that hold a blank line
BlankAfterFirst(ls) == {i \in 2..Len(ls) : IsBlank(ls[i])}

\* lines i.. joined with newlines and trimmed
JoinedFrom(ls, i) == Trim(Join(SubSeq(ls, i, Len(ls)), <<"\n">>))

\* C1: when the first line of the raw text is non-blank, parse_entry returns
\* the trimmed first line as the title, and as the body the lines after the
\* first blank line that follows the first line, joined and trimmed (empty
\* when that blank line is the last line); with no blank line after the first
\* line, the body is all the lines after the first, joined and trimmed.
C1_ParseTitleAndBody ==
    (res.op = "parse" /\ Len(Lines(input)) > 0 /\ ~IsBlank(Lines(input)[1])) =>
        LET ls == Lines(input)
        IN  /\ res.title = Some(Trim(ls[1]))
            /\ BlankAfterFirst(ls) # {} =>
                   res.body = JoinedFrom(ls, Min(BlankAfterFirst(ls)) + 1)
            /\ (BlankAfterFirst(ls) # {} /\ Min(BlankAfterFirst(ls)) = Len(ls)) =>
                   res.body = <<>>
            /\ BlankAfterFirst(ls) = {} => res.body = JoinedFrom(ls, 2)

\* a text whose first blank line comes after a second non-blank line and is
\* followed by a body has been parsed
C1_Witness ==
    /\ res.op = "parse"
    /\ res.title.some
    /\ BlankAfterFirst(Lines(input)) # {}
    /\ Min(BlankAfterFirst(Lines(input))) >= 3
    /\ res.body # <<>>

\* C2: whenever parse_entry returns no title, the body is the raw input
\* character for character: the empty text for an input with no lines, the
\* untrimmed input for every input whose first line is blank.
C2_NoTitleBodyVerbatim ==
    res.op = "parse" =>
        /\ ~res.title.some => res.body = input
        /\ Lines(input) = <<>> => (res.title = None /\ res.body = <<>>)
        /\ (Lines(input) # <<>> /\ IsBlank(Lines(input)[1])) =>
               (res.title = None /\ res.body = input)

\* a text with a blank first line, other content and surrounding whitespace
\* has been parsed
C2_Witness ==
    /\ res.op = "parse"
    /\ ~res.title.some
    /\ ~IsBlank(input)
    /\ Trim(input) # input

\* the header line "## HH:MM - title\n"
HeaderLine(now, title) ==
    <<"#", "#", " ">> \o Timestamp(now) \o <<" ", "-", " ">> \o title \o <<"\n">>

\* C3: format_entry returns exactly one of four fragments: the header line
\* for a non-empty title and empty body; the header line, an empty line, the
\* body and a newline for a non-empty title and non-empty body; the body and
\* a newline for an absent or empty title and a non-empty body; the empty
\* string for an absent or empty title and empty body.
C3_FormatFourFragments ==
    res.op = "format" =>
        LET titled == res.title.some /\ res.title.val # <<>>
        IN  /\ (titled /\ res.body = <<>>) =>
                   res.fragment = HeaderLine(res.now, res.title.val)
            /\ (titled /\ res.body # <<>>) =>
                   res.fragment = HeaderLine(res.now, res.title.val)
                                  \o <<"\n">> \o res.body \o <<"\n">>
            /\ (~titled /\ res.body # <<>>) => res.fragment = res.body \o <<"\n">>
            /\ (~titled /\ res.body = <<>>) => res.fragment = <<>>

\* an empty (not absent) title has been formatted with a non-empty body
C3_Witness ==
    /\ res.op = "format"
    /\ res.title = Some(<<>>)
    /\ res.body # <<>>
    /\ res.fragment # <<>>

\* the fragment append_to_log computes from the input at the recorded time
FragmentOf(raw, now) ==
    format_entry(parse_entry(raw).title, parse_entry(raw).body, now)

\* s is a prefix of t
IsPrefix(s, t) == Len(s) <= Len(t) /\ SubSeq(t, 1, Len(s)) = s

\* C4: when the fragment is non-blank, append_to_log leaves the file with
\* its previous content (empty if it was absent) followed by the fragment
\* and one newline; the previous content is always a prefix of the new one.
C4_AppendKeepsPrefix ==
    res.op = "append" =>
        /\ ~IsBlank(FragmentOf(input, res.now)) =>
               /\ file.exists
               /\ file.content =
                      res.before.content \o FragmentOf(input, res.now) \o <<"\n">>
        /\ IsPrefix(res.before.content, file.content)

\* a titled entry has been appended to a file that already held content
C4_Witness ==
    /\ res.op = "append"
    /\ res.before.exists
    /\ res.before.content # <<>>
    /\ parse_entry(input).title.some
    /\ file.content # res.before.content

\* C5: when the fragment is empty after trimming, append_to_log changes
\* nothing: an absent file stays absent, an existing file keeps its content.
C5_BlankFragmentNoOp ==
    (res.op = "append" /\ IsBlank(FragmentOf(input, res.now))) =>
        /\ file = res.before
        /\ file.exists = res.before.exists

\* a whitespace-only text has been appended to a missing file
C5_Witness ==
    /\ res.op = "append"
    /\ input # <<>>
    /\ IsBlank(FragmentOf(input, res.now))
    /\ FragmentOf(input, res.now) # <<>>
    /\ ~res.before.exists
    /\ ~file.exists

\* a trimmed line of the form "## ... - ..."
IsDashHeader(t) == StartsWith(t, <<"#", "#", " ">>) /\ Contains(t, <<" ", "-", " ">>)

\* a trimmed line starting with "# " or "### "
IsHashHeader(t) ==
    StartsWith(t, <<"#", " ">>) \/ StartsWith(t, <<"#", "#", "#", " ">>)

\* the 1-based positions of the lines that match one of the two rules
TitleLines(ls) ==
    {i \in 1..Len(ls) : IsDashHeader(Trim(ls[i])) \/ IsHashHeader(Trim(ls[i]))}

\* the place in the result of the title that line i contributes
TitleIndex(ls, i) == Cardinality({j \in TitleLines(ls) : j <= i})

\* everything after the first occurrence of p in s
AfterFirst(s, p) == SubSeq(s, Min(Matches(s, p)) + Len(p), Len(s))

\* s without its leading '#' characters
WithoutLeadingHashes(s) ==
    LET n == Cardinality({k \in 1..Len(s) : \A j \in 1..k : s[j] = "#"})
    IN  SubSeq(s, n + 1, Len(s))

\* C6: for every raw text with a non-blank first line,
\* extract_entry_titles(format_entry(parse_entry(raw))) recovers the title
\* parse_entry returned, with an empty and with a non-empty body.
C6_RoundTripRecoversTitle ==
    (res.op = "extract" /\ res.parsed /\ res.title.some) =>
        /\ Len(res.titles) >= 1
        /\ res.titles[1] = res.title.val

\* C7: for every trimmed line that starts with "## " and contains " - ",
\* extract_entry_titles appends everything after the first " - " of the line,
\* later " - " occurrences included.
C7_TitleIsRestAfterFirstDash ==
    res.op = "titles" =>
        LET ls == Lines(input)
        IN  \A i \in 1..Len(ls) :
               IsDashHeader(Trim(ls[i])) =>
                   /\ TitleIndex(ls, i) <= Len(res.titles)
                   /\ res.titles[TitleIndex(ls, i)]
                         = AfterFirst(Trim(ls[i]), <<" ", "-", " ">>)

\* C8: extract_entry_titles returns one title per matching line, top to
\* bottom: a line starting with "# " or "### " gives the line without its
\* leading '#' and surrounding whitespace, and a line matching neither that
\* rule nor the "## ... - ..." rule gives nothing.
C8_OneTitlePerMatchingLine ==
    res.op = "titles" =>
        LET ls == Lines(input)
        IN  /\ Len(res.titles) = Cardinality(TitleLines(ls))
            /\ \A i \in 1..Len(ls) :
                   (IsHashHeader(Trim(ls[i])) /\ ~IsDashHeader(Trim(ls[i]))) =>
                       res.titles[TitleIndex(ls, i)]
                         = Trim(WithoutLeadingHashes(Trim(ls[i])))

\* two header lines have given two different titles, in their order
C8_Witness ==
    /\ res.op = "titles"
    /\ Len(res.titles) = 2
    /\ res.titles[1] # res.titles[2]
    /\ \A i \in 1..Len(Lines(input)) : IsHashHeader(Trim(Lines(input)[i]))

\* the weekdays config.summary_days names
AllowedSet == {parse_weekday(summary_days[k]) : k \in 1..Len(summary_days)} \ {NoWeekday}

\* the offsets i of the dates today - i of the window whose weekday is in allowed
EligibleOffsets(allowed) == {i \in 0..(days - 1) : Weekday(today - i) \in allowed}

\* the offsets among `eligible` whose file exists with non-blank content
RecordedOffsets(eligible) ==
    {i \in eligible : logs[i].exists /\ ~IsBlank(logs[i].content)}

\* C9: summarize_logs examines exactly the dates today, today - 1, ...,
\* today - (days - 1); total_eligible_days is the number of them whose weekday
\* is allowed, total_entries the number of those whose file exists with
\* non-blank content, and each such date is recorded once.
C9_WindowCounts ==
    summary.done =>
        LET allowed == AllowedSet
            eligible == EligibleOffsets(allowed)
            recorded == RecordedOffsets(eligible)
        IN  /\ summary.total_eligible_days = Cardinality(eligible)
            /\ summary.total_entries = Cardinality(recorded)
            /\ Len(summary.per_day) = Cardinality(recorded)
            /\ {summary.per_day[k].date : k \in 1..Len(summary.per_day)}
                 = {today - i : i \in recorded}

\* a summary ran where some eligible days have entries, others have none,
\* some days are not eligible, and the day just before the window is an
\* eligible day with an entry
C9_Witness ==
    /\ summary.done
    /\ days >= 3
    /\ summary.total_entries >= 2
    /\ summary.total_entries < summary.total_eligible_days
    /\ summary.total_eligible_days < days
    /\ Weekday(today - days) \in AllowedSet
    /\ logs[days].exists
    /\ ~IsBlank(logs[days].content)

\* the weekdays Monday to Friday
WorkingDays == {"Mon", "Tue", "Wed", "Thu", "Fri"}

\* C10: with --days 7 and summary_days Monday..Friday, total_eligible_days
\* is 5 whatever the weekday of today, and when exactly 3 of those 5 days
\* have non-blank files the consistency printed is 60.0 percent.
C10_WeekdayConsistency ==
    (summary.done /\ days = 7 /\ summary_days = DefaultSummaryDays) =>
        /\ summary.total_eligible_days = 5
        /\ Cardinality(RecordedOffsets(EligibleOffsets(WorkingDays))) = 3 =>
               (~summary.no_entries /\ summary.consistency = 600)

\* a 7-day summary ran on a Sunday with entries on 3 of the 5 weekdays
C10_Witness ==
    /\ summary.done
    /\ days = 7
    /\ summary_days = DefaultSummaryDays
    /\ Weekday(today) = "Sun"
    /\ Cardinality(RecordedOffsets(EligibleOffsets(WorkingDays))) = 3
    /\ summary.consistency = 600

\* C11: for every span and every summary_days list (empty, naming no day,
\* naming a day more than once), summarize_logs ends with
\* 0 <= total_entries <= total_eligible_days <= days, computes the consistency
\* only with total_eligible_days >= 1, and with no recorded day it reports
\* that there are no entries and returns without computing a consistency.
C11_CountsOrdered ==
    summary.done =>
        LET recorded == RecordedOffsets(EligibleOffsets(AllowedSet))
        IN  /\ 0 <= summary.total_entries
            /\ summary.total_entries <= summary.total_eligible_days
            /\ summary.total_eligible_days <= days
            /\ ~summary.no_entries => summary.total_eligible_days >= 1
            /\ recorded = {} => (summary.no_entries /\ summary.per_day = <<>>)

\* a summary ran under a summary_days list that names no day, over a window
\* in which a file has an entry: nothing is eligible and nothing is recorded
C11_Witness ==
    /\ summary.done
    /\ summary.no_entries
    /\ Len(summary_days) >= 2
    /\ AllowedSet = {}
    /\ days >= 2
    /\ \E i \in 0..(days - 1) : logs[i].exists /\ ~IsBlank(logs[i].content)
    /\ summary.total_eligible_days = 0

\* the content recorded for the date of a displayed day
ContentOf(date) == logs[today - date].content

\* the 1-based positions of the non-blank lines of a content
NonBlankLines(content) == {k \in 1..Len(Lines(content)) : ~IsBlank(Lines(content)[k])}

\* C12 as stated: for a recorded day whose content yields no titles, the
\* summary shows the first non-blank line of the content wherever it is.
C12_FirstNonBlankAnywhere ==
    summary.done =>
        \A k \in 1..Len(summary.per_day) :
            LET content == ContentOf(summary.per_day[k].date)
                nb == NonBlankLines(content)
            IN  (extract_entry_titles(content) = <<>> /\ nb # {}) =>
                    summary.per_day[k].lines = <<Trim(Lines(content)[Min(nb)])>>

\* C12: for a recorded day whose content yields no titles, the summary shows
\* the first non-blank line among the first two lines of the content,
\* trimmed, and nothing when the first two lines are both blank.
C12_FirstNonBlankOfTwo ==
    summary.done =>
        \A k \in 1..Len(summary.per_day) :
            LET content == ContentOf(summary.per_day[k].date)
                nb == NonBlankLines(content) \cap {1, 2}
            IN  extract_entry_titles(content) = <<>> =>
                    summary.per_day[k].lines =
                        IF nb = {} THEN <<>> ELSE <<Trim(Lines(content)[Min(nb)])>>

\* a summary displayed a day without titles by its second line, the first
\* being blank, and another day without titles by nothing, its first
\* non-blank line being the third
C12_Witness ==
    /\ summary.done
    /\ \E k \in 1..Len(summary.per_day) :
          LET content == ContentOf(summary.per_day[k].date)
          IN  /\ extract_entry_titles(content) = <<>>
              /\ Min(NonBlankLines(content)) = 2
              /\ summary.per_day[k].lines = <<<<"a">>>>
    /\ \E k \in 1..Len(summary.per_day) :
          LET content == ContentOf(summary.per_day[k].date)
          IN  /\ extract_entry_titles(content) = <<>>
              /\ Min(NonBlankLines(content)) = 3
              /\ summary.per_day[k].lines = <<>>

\* C13: the days a summary displays are in strictly descending date order,
\* most recent first, and every recorded date appears exactly once.
C13_DescendingDates ==
    summary.done =>
        /\ \A k \in 1..(Len(summary.per_day) - 1) :
              summary.per_day[k].date > summary.per_day[k + 1].date
        /\ \A i \in RecordedOffsets(EligibleOffsets(AllowedSet)) :
              Cardinality({k \in 1..Len(summary.per_day) :
                              summary.per_day[k].date = today - i}) = 1

\* a summary displayed four days or more, with a gap between two of them
C13_Witness ==
    /\ summary.done
    /\ Len(summary.per_day) >= 4
    /\ summary.per_day[1].date > summary.per_day[2].date + 1
    /\ summary.per_day[1].date > summary.per_day[Len(summary.per_day)].date

\* s is the lower-case word w in some mix of upper and lower case
IsCaseVariantOf(s, w) ==
    /\ Len(s) = Len(w)
    /\ \A i \in 1..Len(w) :
          \/ s[i] = w[i]
          \/ \E k \in 1..Len(LowerCase) : LowerCase[k] = w[i] /\ UpperCase[k] = s[i]

\* the weekday whose full name or three-letter abbreviation s is, if any
NamedWeekday(s) ==
    LET ks == {k \in 1..Len(DayNameTable) :
                  \/ IsCaseVariantOf(s, DayNameTable[k])
                  \/ IsCaseVariantOf(s, SubSeq(DayNameTable[k], 1, 3))}
    IN  IF ks = {} THEN NoWeekday ELSE WeekdayNames[Min(ks)]

\* C14: parse_weekday returns a weekday for exactly the seven full English
\* day names and their seven three-letter abbreviations, in any letter case,
\* and none for every other string; a summary_days entry that is not
\* recognized is left out of the allowed weekdays and the summary completes.
C14_WeekdayNames ==
    /\ res.op = "weekday" => res.weekday = NamedWeekday(input)
    /\ (summary.done /\ Len(summary_days) = 2 /\ summary_days[1] = input) =>
           summary.total_eligible_days
               = Cardinality(EligibleOffsets({NamedWeekday(input), "Fri"} \ {NoWeekday}))

\* a full name in mixed case was parsed to its weekday, a week's summary
\* under that name and "fri" counted two eligible days
C14_Witness ==
    /\ res.op = "weekday"
    /\ res.weekday = "Wed"
    /\ Len(input) = 9
    /\ input[1] = "W"
    /\ input[2] = "e"
    /\ input[3] = "D"
    /\ summary.done
    /\ summary.total_eligible_days = 2

\* C15: the edit-in-place operation has three outcomes decided by the editor
\* result: the file holds the new content verbatim when the new content
\* differs from the existing content and is non-blank; the file is deleted
\* when the new content is blank and the file existed; in every other case
\* the file's existence and content are unchanged.
C15_EditOutcomes ==
    res.op = "edit" =>
        LET existing == IF res.before.exists THEN res.before.content ELSE <<>>
        IN  /\ (input # existing /\ ~IsBlank(input)) =>
                   (logs[0].exists /\ logs[0].content = input)
            /\ (IsBlank(input) /\ res.before.exists) => ~logs[0].exists
            /\ (~IsBlank(input) /\ input = existing) => logs[0] = res.before
            /\ (IsBlank(input) /\ ~res.before.exists) => logs[0] = res.before

\* an edit replaced two appended entries by a shorter text without a header
C15_Witness ==
    /\ res.op = "edit"
    /\ res.before.exists
    /\ Len(res.before.content) > 20
    /\ input = <<"\n", "a">>
    /\ logs[0].content = <<"\n", "a">>

\* one step of a session keeps to appending and edit-in-place
C16_Step ==
    \A d \in DOMAIN logs :
        /\ (logs[d].exists /\ ~logs'[d].exists) =>
               (d = 0 /\ res'.op = "edit" /\ IsBlank(input'))
        /\ (logs[d].exists /\ logs'[d].exists /\ logs'[d].content # logs[d].content) =>
               \/ /\ res'.op \in {"append", "yesterday"}
                  /\ IsPrefix(logs[d].content, logs'[d].content)
               \/ /\ d = 0
                  /\ res'.op = "edit"
                  /\ logs'[d].content = input'

\* C16: over every sequence of operations (append to today, append to the
\* previous day, edit-in-place, view previous, summary), a log file that
\* exists is removed only by an edit-in-place step whose editor result is
\* blank, and its content changes only by gaining a suffix in an append or by
\* an edit-in-place replacement.
C16_AppendOnlyBetweenEdits == [][C16_Step]_vars

\* today's file, holding an entry, was removed by an edit returning blank
\* text while the previous day's file holds two entries
C16_Witness ==
    /\ res.op = "edit"
    /\ IsBlank(input)
    /\ res.before.exists
    /\ Len(res.before.content) > 10
    /\ ~logs[0].exists
    /\ logs[1].exists
    /\ Len(logs[1].content) > 20

\* the configuration the documentation of Config calls the defaults
AllDefaults ==
    [log_dir |-> "~/.dailylog", git_repo |-> None, git_auto_sync |-> None,
     git_branch_name |-> "master", summary_days |-> DefaultSummaryDays]

\* C17: when the home directory resolves, load_config returns the
\* all-defaults configuration both when the configuration file is missing and
\* when its content cannot be parsed as TOML.
C17_DefaultsOnMissingOrUnparseable ==
    (config.loaded /\ home /\ (~cfg_file.exists \/ cfg_file.toml = "syntax error")) =>
        (config.result = "Ok" /\ config.value = AllDefaults)

\* the index in logs of the file a journaling command writes to
TargetOf(command) == IF command = "yesterday" THEN 1 ELSE 0

\* the positions in the events of an invocation that are git commands
GitEvents == {k \in 1..Len(run.events) : run.events[k].site # "append_to_log"}

\* C18: auto_sync_if_enabled returns success for every outcome of the init,
\* pull and push steps: a failure of a git step during auto-sync does not
\* make the journaling command fail and does not undo the entry written.
C18_AutoSyncNeverFails ==
    (run.command \in {"default", "yesterday"} /\ run.edited) =>
        /\ run.result = "Ok"
        /\ \A d \in DOMAIN logs :
              /\ run.before[d].exists => logs[d].exists
              /\ IsPrefix(run.before[d].content, logs[d].content)
        /\ ~IsBlank(run.entry) =>
              /\ logs[TargetOf(run.command)].exists
              /\ Len(logs[TargetOf(run.command)].content)
                     > Len(run.before[TargetOf(run.command)].content)

\* the default command wrote an entry after an earlier one, auto-sync set
\* the repository up, pulled, committed, and failed in its last step, the
\* push: the command succeeded with a warning and the entry is in the file
C18_Witness ==
    /\ run.command = "default"
    /\ run.result = "Ok"
    /\ run.warning
    /\ Len(run.events) = 9
    /\ run.events[9] = [site |-> "push", ok |-> FALSE]
    /\ run.before[0].exists
    /\ Len(logs[0].content) > Len(run.before[0].content)

\* C19: in every invocation of the default command and of the `yesterday`
\* command, a git operation is attempted only after that invocation wrote an
\* entry to a log file; an invocation whose editor text was blank attempts no
\* git operation.
C19_SyncOnlyAfterWrite ==
    run.command \in {"default", "yesterday"} =>
        /\ \A k \in GitEvents :
              /\ \E j \in 1..(k - 1) : run.events[j].site = "append_to_log"
              /\ logs[TargetOf(run.command)] # run.before[TargetOf(run.command)]
        /\ IsBlank(run.entry) => GitEvents = {}

\* C20: when the editor returns empty or whitespace-only text, the default
\* command and the `yesterday` command leave the target day's file unchanged
\* (an absent file is not created) and complete without an error.
C20_BlankEntryNoWrite ==
    (run.command \in {"default", "yesterday"} /\ run.edited /\ IsBlank(run.entry)) =>
        /\ logs = run.before
        /\ run.result = "Ok"
        /\ \A k \in 1..Len(run.events) : run.events[k].site # "append_to_log"

\* `yesterday` got whitespace from the editor while the previous day had no
\* file: it succeeded and there is still no file
C20_Witness ==
    /\ run.command = "yesterday"
    /\ run.edited
    /\ run.entry = <<" ", "\n">>
    /\ ~run.before[1].exists
    /\ ~logs[1].exists
    /\ run.result = "Ok"

\* the sites of init_git_repo, and those of git_push
InitSites == {"init", "remote add", "init pull", "checkout"}

PushSites == {"add", "status", "commit", "push"}

\* the git command at a site was run and failed
Failed(site) == \E k \in 1..Len(run.events) : run.events[k] = [site |-> site, ok |-> FALSE]

\* the git command at a site was run and succeeded
Succeeded(site) == \E k \in 1..Len(run.events) : run.events[k] = [site |-> site, ok |-> TRUE]

\* the events show init_git_repo returning Ok
EnsureRepoSucceeded ==
    /\ Succeeded("init")
    /\ Succeeded("remote add")
    /\ Succeeded("init pull") \/ Succeeded("checkout")

\* C21: in every run of `sync` the steps occur in the order ensure-repo (only
\* when the log directory is not yet a repository), pull, push: pull is
\* attempted only after ensure-repo succeeded or was skipped, push only after
\* pull succeeded, and sync returns an error with no git step attempted when
\* no git_repo is configured.
C21_SyncOrder ==
    (run.command = "sync" /\ config.result = "Ok") =>
        LET ev == run.events
        IN  /\ ~config.value.git_repo.some => (run.result = "Err" /\ ev = <<>>)
            /\ \A k \in 1..Len(ev) :
                  /\ ev[k].site \in InitSites =>
                        (~run.was_repo /\ \A j \in 1..k : ev[j].site \in InitSites)
                  /\ ev[k].site = "pull" =>
                        /\ \A j \in 1..(k - 1) : ev[j].site \in InitSites
                        /\ \A j \in (k + 1)..Len(ev) : ev[j].site \in PushSites
                        /\ run.was_repo \/ EnsureRepoSucceeded
                  /\ ev[k].site \in PushSites =>
                        \E j \in 1..(k - 1) : ev[j] = [site |-> "pull", ok |-> TRUE]
            /\ (config.value.git_repo.some /\ ~run.was_repo) =>
                  (ev # <<>> /\ ev[1].site = "init")
            /\ (config.value.git_repo.some /\ run.was_repo) =>
                  (ev # <<>> /\ ev[1].site = "pull")

\* a `sync` set the repository up, creating the branch after a failed pull,
\* then pulled, committed and pushed
C21_Witness ==
    /\ run.command = "sync"
    /\ ~run.was_repo
    /\ run.result = "Ok"
    /\ Len(run.events) = 9
    /\ Failed("init pull")
    /\ run.events[5] = [site |-> "pull", ok |-> TRUE]
    /\ run.events[9] = [site |-> "push", ok |-> TRUE]

\* C22: during repository initialization (directory not yet a repository) a
\* failed pull does not make init_git_repo fail: it is followed by creating
\* the branch locally, and init_git_repo succeeds if that checkout succeeds;
\* a failure of init, remote add or the checkout is returned as an error;
\* when the directory already is a repository no git command is run.
C22_InitRecoversFromPull ==
    run.command = "init_git_repo" =>
        /\ run.was_repo => (run.events = <<>> /\ run.result = "Ok")
        /\ ~run.was_repo =>
              /\ (Failed("init") \/ Failed("remote add") \/ Failed("checkout")) =>
                     run.result = "Err"
              /\ Failed("init pull") =>
                     /\ Len(run.events) = 4
                     /\ run.events[3].site = "init pull"
                     /\ run.events[4].site = "checkout"
                     /\ run.events[4].ok => run.result = "Ok"
              /\ Succeeded("init pull") => (Len(run.events) = 3 /\ run.result = "Ok")

\* init_git_repo on a directory that was no repository: the pull failed, the
\* branch was created, and the result is Ok
C22_Witness ==
    /\ run.command = "init_git_repo"
    /\ ~run.was_repo
    /\ Failed("init pull")
    /\ Succeeded("checkout")
    /\ run.result = "Ok"
    /\ is_repo

\* C28: if `pull origin <branch>` fails every time it is run, git_sync on a
\* directory that is not yet a repository returns an error without attempting
\* add, commit or push, even though initialization recovered from its own
\* failed pull; and every later git_sync, which skips initialization, also
\* returns an error without attempting push.
C28_EmptyRemoteNeverSyncs ==
    (run.command = "sync" /\ config.result = "Ok" /\ run.pulls_failed) =>
        /\ run.result = "Err"
        /\ \A k \in 1..Len(run.events) : run.events[k].site \notin PushSites
        /\ (config.value.git_repo.some /\ run.was_repo) =>
              run.events = <<[site |-> "pull", ok |-> FALSE]>>
        /\ (~run.was_repo /\ Succeeded("checkout")) =>
              (Len(run.events) = 5 /\ run.events[5] = [site |-> "pull", ok |-> FALSE])

\* the third git command in a row is a `sync` on a directory an earlier
\* command made a repository: it ran the pull alone, which failed as every
\* pull before, and returned an error
C28_Witness ==
    /\ run.command = "sync"
    /\ run.runs = 3
    /\ run.was_repo
    /\ run.pulls_failed
    /\ run.events = <<[site |-> "pull", ok |-> FALSE]>>
    /\ run.result = "Err"

\* name is YYYY-MM-DD.md
IsDatedName(name) ==
    /\ Len(name) = 13
    /\ \A i \in {1, 2, 3, 4, 6, 7, 9, 10} : \E k \in 1..10 : Digits[k] = name[i]
    /\ name[5] = "-"
    /\ name[8] = "-"
    /\ SubSeq(name, 11, 13) = <<".", "m", "d">>

\* path names the file `name` in the directory dir
IsFileIn(path, dir, name) ==
    \/ dir = <<>> /\ path = name
    \/ dir # <<>> /\ dir[Len(dir)] = "/" /\ path = dir \o name
    \/ dir # <<>> /\ dir[Len(dir)] # "/" /\ path = dir \o <<"/">> \o name

\* C23: path_for(log_dir, date) has the form log_dir/YYYY-MM-DD.md and maps
\* distinct dates to distinct paths within one log_dir; today_path and
\* previous_day_path equal path_for at the local date of the call and at
\* that date minus one day.
C23_PathsByLocalDate ==
    /\ res.op = "path_for" =>
          /\ Len(res.path) >= 13
          /\ IsDatedName(SubSeq(res.path, Len(res.path) - 12, Len(res.path)))
          /\ IsFileIn(res.path, input,
                      SubSeq(res.path, Len(res.path) - 12, Len(res.path)))
          /\ \A n \in (-1)..MaxDay :
                n # res.date => get_log_file_path_for_date(input, DateOf(n)) # res.path
    /\ res.op = "today_path" =>
          res.path = get_log_file_path_for_date(input, DateOf(LocalDay(zone, clock)))
    /\ res.op = "previous_day_path" =>
          res.path = get_log_file_path_for_date(input, DateOf(LocalDay(zone, clock) - 1))

\* C24: the `previous` command returns success, not an error, when the
\* previous day's file is missing and when it exists with blank content, and
\* in all cases it creates, modifies and deletes no log file.
C24_PreviousReadsOnly ==
    (run.command = "previous" /\ config.result = "Ok") =>
        /\ logs = run.before
        /\ ~run.before[1].exists =>
              (run.result = "Ok" /\ res.shown.message = "No log entry found")
        /\ (run.before[1].exists /\ IsBlank(run.before[1].content)) =>
              (run.result = "Ok" /\ res.shown.message = "log is empty")
        /\ (run.before[1].exists /\ ~IsBlank(run.before[1].content)) =>
              res.shown.content = run.before[1].content

\* `previous` ran with no file for the previous day while today has one:
\* it succeeded and the previous day still has no file
C24_Witness ==
    /\ run.command = "previous"
    /\ run.result = "Ok"
    /\ run.before[0].exists
    /\ ~run.before[1].exists
    /\ ~logs[1].exists
    /\ res.shown.message = "No log entry found"

\* C25: the `summary` command as dispatched by the CLI entry point counts as
\* eligible only the days of the window whose weekday is in the configured
\* summary_days, and reports the consistency as total_entries relative to
\* that eligible count, not relative to the days of the span.
C25_SummaryCommandFiltersWeekdays ==
    (run.command = "summary" /\ summary.done) =>
        LET eligible == EligibleOffsets(AllowedSet)
            recorded == RecordedOffsets(eligible)
        IN  /\ summary.no_entries = (recorded = {})
            /\ ~summary.no_entries =>
                  /\ summary.total_eligible_days = Cardinality(eligible)
                  /\ summary.total_entries = Cardinality(recorded)
                  /\ summary.consistency
                         = ConsistencyTenths(Cardinality(recorded), Cardinality(eligible))

\* the positions (from 1) of the blank lines after the first line
BlankLinesAfterFirst(ls) == {k \in 2..Len(ls) : IsBlank(ls[k])}

\* the position of the first blank line after the first line
FirstBlankLine(ls) ==
    CHOOSE k \in BlankLinesAfterFirst(ls) : \A j \in BlankLinesAfterFirst(ls) : k <= j

\* the first line is non-blank and the first blank line after it is the
\* third line or a later one, so that lines stand between the two
HasLinesBeforeBlank(s) ==
    LET ls == Lines(s)
    IN  /\ Len(ls) >= 1
        /\ ~IsBlank(ls[1])
        /\ BlankLinesAfterFirst(ls) # {}
        /\ FirstBlankLine(ls) >= 3

\* the lines between the first line and the first blank line
LinesBeforeBlank(s) == SubSeq(Lines(s), 2, FirstBlankLine(Lines(s)) - 1)

\* the text after the first blank line, trimmed
TextAfterBlank(s) ==
    LET ls == Lines(s)
    IN  Trim(Join(SubSeq(ls, FirstBlankLine(ls) + 1, Len(ls)), <<"\n">>))

\* what the call added to the end of the file
Written == SubSeq(file.content, Len(res.before.content) + 1, Len(file.content))

\* a character of a line between the first line and the first blank line
\* that is neither in the first line nor after the blank line
OnlyBeforeBlank(s) ==
    {c \in Alphabet :
        /\ \E k \in 1..Len(LinesBeforeBlank(s)) : Contains(LinesBeforeBlank(s)[k], <<c>>)
        /\ ~Contains(Lines(s)[1], <<c>>)
        /\ ~Contains(TextAfterBlank(s), <<c>>)}

\* C26: when the first line is not blank and the first blank line after it
\* is the third line or a later one, the non-blank lines between the two are
\* in neither the title nor the body parse_entry returns: the title is the
\* trimmed first line and the body the trimmed text after the blank line, and
\* append_to_log writes the fragment made of those two, which holds nothing
\* of the lines in between.
C26_LinesBeforeBlankDropped ==
    HasLinesBeforeBlank(input) =>
        /\ \A k \in 1..Len(LinesBeforeBlank(input)) : ~IsBlank(LinesBeforeBlank(input)[k])
        /\ res.op = "parse" =>
              /\ res.title = Some(Trim(Lines(input)[1]))
              /\ res.body = TextAfterBlank(input)
        /\ res.op = "append" =>
              /\ Written = format_entry(Some(Trim(Lines(input)[1])),
                                        TextAfterBlank(input), res.now) \o <<"\n">>
              /\ "a" \in OnlyBeforeBlank(input) => ~Contains(Written, <<"a">>)

\* a text whose second line alone holds an "a", with a blank third line and a
\* body after it, has been appended
C26_Witness ==
    /\ HasLinesBeforeBlank(input)
    /\ "a" \in OnlyBeforeBlank(input)
    /\ TextAfterBlank(input) # <<>>
    /\ res.op = "append"
    /\ Written # <<>>

\* C27: starting from an empty log directory, after every sequence of
\* appends and edits in place, whatever the editor returns, every log file
\* that exists holds non-blank content: no operation leaves an empty or
\* whitespace-only file.
C27_NoBlankLogFile ==
    \A d \in DOMAIN logs : logs[d].exists => ~IsBlank(logs[d].content)

\* the previous day's file holds an entry, and the editor returned a
\* whitespace-only text for today's file, which held one
C27_Witness ==
    /\ res.op = "edit"
    /\ logs[1].exists
    /\ res.before.exists
    /\ input # <<>>
    /\ IsBlank(input)
    /\ ~logs[0].exists

====
